---- MODULE Spec2Model ----
(***************************************************************************)
(* Model of the commit-agent generation engine: the response normalizer    *)
(* (core/generator.py), the constraint validator (core/validator.py), the  *)
(* single-target attempt loop _run_target and the fallback coordinator   *)
(* run_once (core/engine.py).                                            *)
(* the batch runner run_batch_experiments (lab/batch.py) with the run log *)
(* (core/logger.py), and a direct caller of validate_commit.             *)
(*                                                                         *)
(* Conventions.                                                            *)
(*  - Python None / Optional[T]: a sequence of length 0 (None) or 1.   *)
(*  - Python str: a sequence of one-character strings.                   *)
(*  - A dict whose key set varies (meta): a record holding every key the *)
(*    engine ever writes, each an Optional (length 0 = key not present).   *)
(*  - Raw backend text: a sequence of lexical tokens (fence, whitespace,   *)
(*    bare word, JSON value).                                              *)
(***************************************************************************)
EXTENDS Integers, Sequences, FiniteSets, TLC

VARIABLES
    config,           \* ProdConfig handed to run_once
    environ,          \* process environment: is GROQ_API_KEY set
    templates,        \* prompt strategies that have a template file on disk
    repo,             \* staged git state, as read_git_context would see it now
    pc,               \* position of run_once / _run_target
    target,           \* which target _run_target is running: "primary" | "fallback"
    context,          \* run_once local context (Optional DiffContext)
    reads,            \* number of read_git_context calls made
    retries,          \* _run_target local
    last_error,       \* _run_target local (Optional error code)
    last_violations,  \* _run_target local
    last_meta,        \* _run_target local
    inFlight,         \* backend calls issued and not yet returned (set of targets)
    calls,            \* per target: provider generate() invocations made
    attempts,         \* per target: generate_commit invocations made
    failed,           \* per target: attempts that did not produce a valid candidate
    prompted,         \* set of DiffContext values composed into prompts so far
    lastAttempt,      \* per target: outcome of the most recent attempt (Optional)
    primary,          \* run_once local primary (Optional EngineResult)
    fallback,         \* run_once local fallback (Optional EngineResult)
    result            \* value returned by run_once (Optional EngineResult)

vars == <<config, environ, templates, repo, pc, target, context, reads, retries,
          last_error, last_violations, last_meta, inFlight, calls, attempts,
          failed, prompted, lastAttempt, primary, fallback, result>>

\* State of one run_batch_experiments call (lab/batch.py) and of the run log
VARIABLES
    batch_config,     \* LabBatchConfig: the matrix handed to run_batch_experiments
    batch_retries,    \* run_batch_experiments argument max_retries
    bpc,              \* position of run_batch_experiments
    expanded,         \* value of _expand_batch_matrix(batch_config), once computed
    index,            \* loop variable of enumerate(..., start=1)
    rows,             \* run_batch_experiments local rows
    runlog,           \* lines of the run log file eval/runs.jsonl
    edited,           \* the staged changes have changed since the batch began
    cellPrompts,      \* per finished cell: the prompts its run_once composed
    engineRuns,       \* number of run_once calls made
    targetRuns        \* number of _run_target runs that returned

batchVars == <<batch_config, batch_retries, bpc, expanded, index, rows, runlog, edited,
               cellPrompts, engineRuns, targetRuns>>

\* State of a caller of validate_commit (core/validator.py)
VARIABLES
    candidate,        \* the CommitMessage handed to validate_commit
    limits,           \* the constraints dict handed to validate_commit
    validations       \* the ValidationResult of every call made so far, in call order

validatorVars == <<candidate, limits, validations>>

\* State of a caller of the response normalizer (core/generator.py lines 193-203)
VARIABLES
    response,         \* the raw text the provider call returned
    decoded           \* the GeneratorOutput made of it (Optional)

normalizerVars == <<response, decoded>>

\* State of a caller of compute_metrics (lab/metrics.py)
VARIABLES
    run_results,      \* the EngineResults handed to compute_metrics
    summary           \* the dict compute_metrics returned (Optional)

metricsVars == <<run_results, summary>>

\* State of a caller of compare_configs (lab/compare.py)
VARIABLES
    metrics_by_config, \* the mapping handed to compare_configs, in insertion order
    scored             \* the list compare_configs returned (Optional)

compareVars == <<metrics_by_config, scored>>

\* State of a caller that invokes run_once twice, changing only timeout_seconds
VARIABLES
    twin_pc,          \* "none", or which of the two invocations is under way
    tape,             \* what the backend and the clock did, in order, still to replay
    first_run         \* what the first invocation did and returned (Optional)

twinVars == <<twin_pc, tape, first_run>>

\* State outside one run_once call and outside the batch loop
toolVars == <<validatorVars, normalizerVars, metricsVars, compareVars, twinVars>>

allVars == <<vars, batchVars, toolVars>>

-----------------------------------------------------------------------------
(* Bounds of the model *)

\* Largest retry cap (max_retries) a config carries
MaxRetries == 2

\* Largest elapsed time, in ms, the clock reports for one run (latency_ms)
MaxLatency == 0

-----------------------------------------------------------------------------
(* Optional values and text *)

None == <<>>

Some(x) == <<x>>

IsNone(o) == Len(o) = 0

Val(o) == o[1]

Lowercase == {"a","b","c","d","e","f","g","h","i","j","k","l","m",
              "n","o","p","q","r","s","t","u","v","w","x","y","z"}

Whitespace == {" ", "\n", "\t"}

Repeat(c, n) == [i \in 1..n |-> c]

\* Mutant: the parts are joined with nothing between them
JoinWithSpace_NoSeparator(parts) ==
    IF Len(parts) = 0 THEN <<>>
    ELSE IF Len(parts) = 1 THEN parts[1]
    ELSE parts[1] \o parts[2]

\* " ".join(parts)
JoinWithSpace(parts) ==
    IF Len(parts) = 0 THEN <<>>
    ELSE IF Len(parts) = 1 THEN parts[1]
    ELSE parts[1] \o <<" ">> \o parts[2]

\* len(text.split()): the number of maximal runs of non-whitespace characters
SplitCount(text) ==
    Cardinality({i \in 1..Len(text) :
                    /\ text[i] \notin Whitespace
                    /\ (i = 1 \/ text[i-1] \in Whitespace)})

-----------------------------------------------------------------------------
(* core/validator.py *)

MaxSubjectLen == 72

\* Python truthiness of an Optional[str]: neither None nor ""
Truthy(o) == ~IsNone(o) /\ Len(Val(o)) > 0

\* CONVENTIONAL_TYPE_PATTERN.match(s) for r"^[a-z]+$": one or more lowercase
\* letters, then the end of the text or a single final line break (Python's $)
CONVENTIONAL_TYPE_PATTERN(s) ==
    \E n \in 1..Len(s) :
        /\ \A i \in 1..n : s[i] \in Lowercase
        /\ \/ n = Len(s)
           \/ n = Len(s) - 1 /\ s[Len(s)] = "\n"

validate_presence(commit) ==
    IF ~Truthy(commit.subject) THEN <<"subject_missing">> ELSE <<>>

\* Mutant: a subject of exactly MaxSubjectLen characters is already too long
validate_subject_length_AtLimit(commit) ==
    IF ~Truthy(commit.subject) THEN <<>>
    ELSE IF Len(Val(commit.subject)) >= MaxSubjectLen THEN <<"subject_too_long">> ELSE <<>>

validate_subject_length(commit) ==
    IF ~Truthy(commit.subject) THEN <<>>
    ELSE IF Len(Val(commit.subject)) > MaxSubjectLen THEN <<"subject_too_long">> ELSE <<>>

compute_word_count(commit) ==
    LET parts == SelectSeq(<<commit.subject, commit.body>>, Truthy)
        text  == JoinWithSpace([i \in 1..Len(parts) |-> Val(parts[i])])
    IN  IF Len(text) > 0 THEN SplitCount(text) ELSE 0

\* Mutant: a word count equal to a bound already violates it
validate_length_constraints_Inclusive(word_count, constraints) ==
    (IF ~IsNone(constraints.min) /\ word_count <= Val(constraints.min)
        THEN <<"word_count_below_min">> ELSE <<>>)
    \o
    (IF ~IsNone(constraints.max) /\ word_count >= Val(constraints.max)
        THEN <<"word_count_above_max">> ELSE <<>>)

validate_length_constraints(word_count, constraints) ==
    (IF ~IsNone(constraints.min) /\ word_count < Val(constraints.min)
        THEN <<"word_count_below_min">> ELSE <<>>)
    \o
    (IF ~IsNone(constraints.max) /\ word_count > Val(constraints.max)
        THEN <<"word_count_above_max">> ELSE <<>>)

validate_conventional_format(commit) ==
    IF IsNone(commit.type) THEN <<>>
    ELSE IF ~CONVENTIONAL_TYPE_PATTERN(Val(commit.type)) THEN <<"invalid_type_format">>
    ELSE <<>>

\* Mutant: the violation list outlives the call and the next call appends to it
validate_commit_KeepsViolations(commit, constraints) ==
    LET word_count == compute_word_count(commit)
        kept == IF validations = <<>> THEN <<>>
                ELSE validations[Len(validations)].violations
    IN  [violations |-> kept
                        \o validate_presence(commit)
                        \o validate_subject_length(commit)
                        \o validate_conventional_format(commit)
                        \o validate_length_constraints(word_count, constraints),
         word_count |-> Some(word_count)]

\* ValidationResult(violations, word_count)
validate_commit(commit, constraints) ==
    LET word_count == compute_word_count(commit)
    IN  [violations |-> validate_presence(commit)
                        \o validate_subject_length(commit)
                        \o validate_conventional_format(commit)
                        \o validate_length_constraints(word_count, constraints),
         word_count |-> Some(word_count)]

-----------------------------------------------------------------------------
(* core/generator.py: raw text, sanitizing, decoding, normalizing *)

\* Lexical tokens of a raw backend response
Fence == [t |-> "fence", w |-> "FENCE", v |-> None]

Space == [t |-> "ws", w |-> "\n", v |-> None]

Word(w) == [t |-> "word", w |-> w, v |-> None]

\* A decoded JSON value.  kind: "object" | "array" | "scalar"; for an object each
\* of the four keys is absent (None) or present with a value that is text or not
JsonText(s) == Some([text |-> TRUE, null |-> FALSE, s |-> s])

\* a number, boolean, list or nested object
JsonNonText == Some([text |-> FALSE, null |-> FALSE, s |-> <<>>])

\* JSON null, which json.loads turns into None
JsonNull == Some([text |-> FALSE, null |-> TRUE, s |-> <<>>])

JsonObject(type, scope, subject, body) ==
    [kind |-> "object", type |-> type, scope |-> scope, subject |-> subject, body |-> body]

JsonArray == [kind |-> "array", type |-> None, scope |-> None, subject |-> None, body |-> None]

JsonScalar == [kind |-> "scalar", type |-> None, scope |-> None, subject |-> None, body |-> None]

Json(v) == [t |-> "json", w |-> "", v |-> Some(v)]

\* str.strip(): drop leading and trailing whitespace
RECURSIVE LStrip(_)
LStrip(toks) ==
    IF Len(toks) > 0 /\ toks[1].t = "ws" THEN LStrip(Tail(toks)) ELSE toks

RECURSIVE RStrip(_)
RStrip(toks) ==
    IF Len(toks) > 0 /\ toks[Len(toks)].t = "ws"
    THEN RStrip(SubSeq(toks, 1, Len(toks) - 1)) ELSE toks

Strip(toks) == RStrip(LStrip(toks))

StripLeadingFence_KeepsTag(toks) ==
    IF Len(toks) > 0 /\ toks[1].t = "fence" THEN Tail(toks) ELSE toks

\* re.sub(r"^FENCE(?:json)?", "", cleaned), FENCE being three backticks
StripLeadingFence(toks) ==
    IF Len(toks) > 0 /\ toks[1].t = "fence"
    THEN IF Len(toks) > 1 /\ toks[2].t = "word" /\ toks[2].w = "json"
         THEN SubSeq(toks, 3, Len(toks))
         ELSE Tail(toks)
    ELSE toks

\* re.sub(r"FENCE$", "", cleaned)
StripTrailingFence(toks) ==
    IF Len(toks) > 0 /\ toks[Len(toks)].t = "fence"
    THEN SubSeq(toks, 1, Len(toks) - 1)
    ELSE toks

sanitize_output(raw) ==
    Strip(StripTrailingFence(Strip(StripLeadingFence(Strip(raw)))))

\* json.loads succeeds on exactly one JSON value; anything but a dict gives None
safe_parse_json(text) ==
    IF Len(text) = 1 /\ text[1].t = "json" /\ Val(text[1].v).kind = "object"
    THEN text[1].v
    ELSE None

\* parsed.get(k) if isinstance(parsed.get(k), str) else None
TextOrNone(field) ==
    IF ~IsNone(field) /\ Val(field).text THEN Some(Val(field).s) ELSE None

CommitMessage(type, scope, subject, body, word_count) ==
    [type |-> type, scope |-> scope, subject |-> subject, body |-> body,
     word_count |-> word_count]

\* parsed.get("subject") is None for a missing key and for a JSON null alike
normalize(parsed) ==
    IF ~IsNone(parsed.subject) /\ ~Val(parsed.subject).null /\ ~Val(parsed.subject).text
    THEN None
    ELSE Some(CommitMessage(TextOrNone(parsed.type), TextOrNone(parsed.scope),
                            TextOrNone(parsed.subject), TextOrNone(parsed.body), None))

-----------------------------------------------------------------------------
(* Metadata dicts, providers and core/generator.py generate_commit *)

EmptyMeta ==
    [provider |-> None, model |-> None, strategy |-> None, reason |-> None,
     timeout_seconds |-> None, fallback_used |-> None,
     primary_error |-> None, primary_retries |-> None]

\* dict.update / {**base, **upd}: keys present in upd override base
MetaUpdate(base, upd) ==
    [k \in DOMAIN base |-> IF IsNone(upd[k]) THEN base[k] ELSE upd[k]]

\* providers/registry.py PROVIDERS
PROVIDERS == {"ollama", "groq"}

\* str(exc) of the exceptions generate_commit can catch, as word sequences
MissingKeyReason == <<"GROQ_API_KEY", "is", "not", "set.">>

TemplateMissingReason == <<"Prompt", "strategy", "file", "not", "found">>

UnknownProviderReason == <<"Unknown", "provider">>

TransportReason == <<"Connection", "refused">>

Raised(reason) == [raised |-> TRUE, reason |-> reason, raw |-> <<>>]

Returned(raw) == [raised |-> FALSE, reason |-> <<>>, raw |-> raw]

Chars_add_cache == <<"a","d","d"," ","c","a","c","h","e">>

Chars_speeds_up_reads == <<"s","p","e","e","d","s"," ","u","p"," ","r","e","a","d","s">>

\* Raw response texts a backend may return
RawResponses ==
    { \* fenced object, subject only
      <<Fence, Word("json"), Space,
        Json(JsonObject(None, None, JsonText(Chars_add_cache), None)), Space, Fence>>,
      \* bare object with type, subject and body; the type ends in a line break
      <<Json(JsonObject(JsonText(<<"f","i","x","\n">>), None,
                        JsonText(Chars_add_cache), JsonText(Chars_speeds_up_reads)))>>,
      \* no subject
      <<Json(JsonObject(JsonText(<<"f","i","x">>), None, None, None))>>,
      \* subject that is not text
      <<Json(JsonObject(None, None, JsonNonText, None))>>,
      \* a JSON array
      <<Json(JsonArray)>> }

\* What one provider generate(prompt, model) call can do.
\* groq: raises RuntimeError when GROQ_API_KEY is unset, before any request;
\* otherwise (groq with a key, ollama) the request raises or returns text.
BackendOutcomes(provider, env) ==
    IF provider = "groq" /\ ~env.GROQ_API_KEY
    THEN {Raised(MissingKeyReason)}
    ELSE {Raised(TransportReason)} \cup {Returned(raw) : raw \in RawResponses}

GeneratorOutput(commit, error, meta) == [commit |-> commit, error |-> error, meta |-> meta]

ProviderError(reason) ==
    GeneratorOutput(None, Some("provider_error"), [EmptyMeta EXCEPT !.reason = Some(reason)])

\* The exception raised inside generate_commit's try block before the provider
\* is invoked, if any: load_prompt (no template file), call_provider (unknown key)
PreCallFailure(tgt, tmpl) ==
    IF tgt.strategy \notin tmpl THEN Some(TemplateMissingReason)
    ELSE IF tgt.provider \notin PROVIDERS THEN Some(UnknownProviderReason)
    ELSE None

\* generate_commit from the point where the provider call has ended in outcome
generate_commit(tgt, outcome) ==
    IF outcome.raised THEN ProviderError(outcome.reason)
    ELSE LET parsed == safe_parse_json(sanitize_output(outcome.raw))
         IN  IF IsNone(parsed) THEN GeneratorOutput(None, Some("invalid_json"), EmptyMeta)
             ELSE LET commit == normalize(Val(parsed))
                  IN  IF IsNone(commit)
                      THEN GeneratorOutput(None, Some("invalid_schema"), EmptyMeta)
                      ELSE GeneratorOutput(commit, None,
                               [EmptyMeta EXCEPT !.provider = Some(tgt.provider),
                                                 !.model = Some(tgt.model)])

-----------------------------------------------------------------------------
(* core/engine.py *)

constraints_to_dict(constraints) == [min |-> Some(constraints.min), max |-> Some(constraints.max)]

EngineResult(commit, violations, r, latency_ms, error, meta) ==
    [commit |-> commit, violations |-> violations, retries |-> r,
     latency_ms |-> latency_ms, error |-> error, meta |-> meta]

TargetMeta(tgt) ==
    [EmptyMeta EXCEPT !.provider = Some(tgt.provider), !.model = Some(tgt.model),
                      !.strategy = Some(tgt.strategy)]

\* Mutant: the loop admits one iteration too many
LoopGuard_OffByOne(r, max_retries) == r <= max_retries + 1

\* Mutant: the body runs once before the cap is looked at
LoopGuard_AtLeastOnce(r, max_retries) == r = 0 \/ r <= max_retries

\* Mutant: the loop also stops once the configured timeout has passed
LoopGuard_WithinTimeout(r, max_retries) == r <= max_retries /\ config.timeout_seconds > 0

\* while retries <= max_retries
LoopGuard(r, max_retries) == r <= max_retries

\* last_error = generated.error or "unknown"
ErrorOrUnknown(error) == IF IsNone(error) THEN "unknown" ELSE Val(error)

\* Mutant: the successful attempt is counted as a retry
SuccessResult_CountsThisAttempt(tgt, commit, r, latency_ms, gen_meta) ==
    EngineResult(Some(commit), <<>>, r + 1, latency_ms, None, MetaUpdate(TargetMeta(tgt), gen_meta))

\* return EngineResult(commit=generated.commit, violations=[], retries=retries, ...)
SuccessResult(tgt, commit, r, latency_ms, gen_meta) ==
    EngineResult(Some(commit), <<>>, r, latency_ms, None, MetaUpdate(TargetMeta(tgt), gen_meta))

\* Mutant: the exhausted result carries no error code
ExhaustedResult_DropsError(tgt, max_retries, violations, error, meta, latency_ms) ==
    EngineResult(None, violations, max_retries, latency_ms, None,
                 MetaUpdate(TargetMeta(tgt), meta))

\* return EngineResult(commit=None, violations=last_violations, retries=max_retries, ...)
ExhaustedResult(tgt, max_retries, violations, error, meta, latency_ms) ==
    EngineResult(None, violations, max_retries, latency_ms, error,
                 MetaUpdate(TargetMeta(tgt), meta))

\* Mutant: equality with the variable name instead of containment
ReasonNamesCredential_Exact(meta) == meta.reason = Some(<<"GROQ_API_KEY">>)

\* "GROQ_API_KEY" in primary.meta.get("reason", "")
ReasonNamesCredential(meta) ==
    ~IsNone(meta.reason) /\ \E i \in 1..Len(Val(meta.reason)) : Val(meta.reason)[i] = "GROQ_API_KEY"

\* Mutant: any provider_error counts as a missing credential
IsMissingCredential_AnyProviderError(res) == res.error = Some("provider_error")

\* primary.error == "provider_error" and "GROQ_API_KEY" in primary.meta.get("reason", "")
IsMissingCredential(res) ==
    res.error = Some("provider_error") /\ ReasonNamesCredential(res.meta)

\* primary.meta["timeout_seconds"] = ...; primary.meta["fallback_used"] = False
AnnotatePrimary(res, cfg) ==
    [res EXCEPT !.meta.timeout_seconds = Some(cfg.timeout_seconds),
                !.meta.fallback_used = Some(FALSE)]

\* Mutant: primary_retries taken from the fallback result itself
AnnotateFallback_OwnRetries(res, prim, cfg) ==
    [res EXCEPT !.meta.timeout_seconds = Some(cfg.timeout_seconds),
                !.meta.fallback_used = Some(TRUE),
                !.meta.primary_error = Some(prim.error),
                !.meta.primary_retries = Some(res.retries)]

\* fallback.meta[...] = ... for timeout_seconds, fallback_used, primary_error, primary_retries
AnnotateFallback(res, prim, cfg) ==
    [res EXCEPT !.meta.timeout_seconds = Some(cfg.timeout_seconds),
                !.meta.fallback_used = Some(TRUE),
                !.meta.primary_error = Some(prim.error),
                !.meta.primary_retries = Some(prim.retries)]

ConfigErrorMessage == "GROQ_API_KEY is not set."

\* Mutant: the test is inverted
PrimarySucceeded_Inverted(res) == IsNone(res.commit)

\* if primary.commit is not None: return primary
PrimarySucceeded(res) == ~IsNone(res.commit)

\* primary.error = "GROQ_API_KEY is not set."
ShortCircuitResult(res) == [res EXCEPT !.error = Some(ConfigErrorMessage)]

\* Mutant: the first failure's code is kept
NextLastError_KeepFirst(prev, code) == IF IsNone(prev) THEN Some(code) ELSE prev

\* last_error = ... (both failure branches overwrite it)
NextLastError(prev, code) == Some(code)

\* Mutant: the increment is lost
NextRetries_Stuck(r) == r

\* retries += 1
NextRetries(r) == r + 1

\* Mutant: the diff is dropped from the prompt
build_prompt_DropsDiff(template, ctx, intent, constraints) ==
    [template |-> template,
     intent |-> IF IsNone(intent) THEN "" ELSE Val(intent),
     constraints |-> constraints,
     status |-> ctx.status,
     diff |-> ""]

\* build_prompt: the parts of the prompt text
build_prompt(template, ctx, intent, constraints) ==
    [template |-> template,
     intent |-> IF IsNone(intent) THEN "" ELSE Val(intent),
     constraints |-> constraints,
     status |-> ctx.status,
     diff |-> ctx.diff]

-----------------------------------------------------------------------------
(* Inputs *)

GroqTarget == [provider |-> "groq", model |-> "llama-3.1-8b-instant", strategy |-> "baseline"]

OllamaTarget == [provider |-> "ollama", model |-> "mistral", strategy |-> "few_shot"]

\* providers/openai.py exists but is not registered in PROVIDERS
OpenAITarget == [provider |-> "openai", model |-> "gpt-4o-mini", strategy |-> "baseline"]

AllTemplates == {"baseline", "few_shot"}

\* Installations the engine runs in: the (primary, fallback) targets of the
\* config, whether GROQ_API_KEY is set, and which strategies have a template file
Deployments ==
    { [pair |-> <<GroqTarget, OllamaTarget>>, GROQ_API_KEY |-> TRUE, templates |-> AllTemplates],
      [pair |-> <<GroqTarget, OllamaTarget>>, GROQ_API_KEY |-> FALSE, templates |-> AllTemplates],
      [pair |-> <<OllamaTarget, GroqTarget>>, GROQ_API_KEY |-> FALSE, templates |-> AllTemplates],
      [pair |-> <<OllamaTarget, GroqTarget>>, GROQ_API_KEY |-> TRUE, templates |-> {"baseline"}],
      \* lab mode: the fallback is the primary target again (lab/runner.py)
      [pair |-> <<GroqTarget, GroqTarget>>, GROQ_API_KEY |-> TRUE, templates |-> AllTemplates],
      [pair |-> <<OllamaTarget, OpenAITarget>>, GROQ_API_KEY |-> TRUE, templates |-> AllTemplates] }

ConstraintChoices == { [min |-> 1, max |-> 3], [min |-> 3, max |-> 50] }

TimeoutChoices == {60}

\* max_retries is int(payload["max_retries"]): nothing rejects a negative value
RetryCaps == (0 - 1)..MaxRetries

ProdConfig(pair, constraints, max_retries, timeout_seconds) ==
    [strategy |-> pair[1].strategy, provider |-> pair[1].provider, model |-> pair[1].model,
     fallback |-> pair[2], constraints |-> constraints,
     max_retries |-> max_retries, timeout_seconds |-> timeout_seconds]

DiffContext(diff, status, files_changed, insertions, deletions) ==
    [diff |-> diff, status |-> status, files_changed |-> files_changed,
     insertions |-> insertions, deletions |-> deletions]

Snapshots ==
    { DiffContext("+cache = {}", "M  app.py", <<"app.py">>, 1, 0),
      DiffContext("-old\n+new", "M  app.py\nA  util.py", <<"app.py", "util.py">>, 1, 1) }

Runs == {"primary", "fallback"}

\* No run_batch_experiments call exists
NoBatch ==
    /\ batch_config = None
    /\ batch_retries = 0
    /\ bpc = "none"
    /\ expanded = <<>>
    /\ index = 0
    /\ rows = <<>>
    /\ runlog = <<>>
    /\ edited = FALSE
    /\ cellPrompts = <<>>
    /\ engineRuns = 0
    /\ targetRuns = 0

\* No direct caller of validate_commit exists
NoValidatorCaller ==
    /\ candidate = None
    /\ limits = None
    /\ validations = <<>>

\* No direct caller of the response normalizer exists
NoNormalizerCaller ==
    /\ response = <<>>
    /\ decoded = None

\* No direct caller of compute_metrics exists
NoMetricsCaller ==
    /\ run_results = <<>>
    /\ summary = None

\* No direct caller of compare_configs exists
NoCompareCaller ==
    /\ metrics_by_config = <<>>
    /\ scored = None

\* No caller compares two invocations
NoTwin ==
    /\ twin_pc = "none"
    /\ tape = <<>>
    /\ first_run = None

NoToolCaller ==
    /\ NoValidatorCaller
    /\ NoNormalizerCaller
    /\ NoMetricsCaller
    /\ NoCompareCaller
    /\ NoTwin

-----------------------------------------------------------------------------
(* State machine of run_once *)

\* The GenerationTarget a run works on
TargetOf(cfg, t) ==
    IF t = "primary"
    THEN [provider |-> cfg.provider, model |-> cfg.model, strategy |-> cfg.strategy]
    ELSE cfg.fallback

\* run_once line 136: nothing read, no run entered yet
EngineLocals ==
    /\ pc = "start"
    /\ target = "primary"
    /\ context = None
    /\ reads = 0
    /\ retries = 0
    /\ last_error = None
    /\ last_violations = <<>>
    /\ last_meta = EmptyMeta
    /\ inFlight = {}
    /\ calls = [t \in Runs |-> 0]
    /\ attempts = [t \in Runs |-> 0]
    /\ failed = [t \in Runs |-> 0]
    /\ prompted = {}
    /\ lastAttempt = [t \in Runs |-> None]
    /\ primary = None
    /\ fallback = None
    /\ result = None

\* A production run (prod/app.py run_agent): no batch is running and
\* validate_commit has no caller but the engine
Init ==
    /\ \E d \in Deployments, c \in ConstraintChoices, r \in RetryCaps, t \in TimeoutChoices :
          /\ config = ProdConfig(d.pair, c, r, t)
          /\ environ = [GROQ_API_KEY |-> d.GROQ_API_KEY]
          /\ templates = d.templates
    /\ repo \in Snapshots
    /\ EngineLocals
    /\ NoBatch
    /\ NoToolCaller

\* _run_target lines 62-66: the locals at entry
EnterRunTarget(t) ==
    /\ target' = t
    /\ retries' = 0
    /\ last_error' = None
    /\ last_violations' = <<>>
    /\ last_meta' = EmptyMeta
    /\ pc' = "loop"

\* run_once lines 136-154: read the git context once and enter the primary run
Start ==
    /\ pc = "start"
    /\ context' = Some(repo)
    /\ reads' = reads + 1
    /\ EnterRunTarget("primary")
    /\ UNCHANGED <<config, environ, templates, repo, inFlight, calls, attempts, failed,
                   prompted, lastAttempt, primary, fallback, result>>

\* Ghost record of one attempt as it happened: its error code (None for a valid
\* candidate), the violations validation found, the reason of a raised exception
AttemptRecord(error, violations, reason) ==
    Some([error |-> error, violations |-> violations, reason |-> reason])

\* Ghost counters stop counting at CounterCap, above anything a run may reach
CounterCap == MaxRetries + 3

Bump(n) == IF n < CounterCap THEN n + 1 ELSE n

\* One loop iteration in which generate_commit fails before the provider is
\* invoked (no template file, or an unregistered provider)
AttemptFailsBeforeCall ==
    /\ pc = "loop"
    /\ LoopGuard(retries, config.max_retries)
    /\ LET tgt == TargetOf(config, target)
           pre == PreCallFailure(tgt, templates)
           generated == ProviderError(Val(pre))
       IN  /\ ~IsNone(pre)
           /\ prompted' = IF tgt.strategy \in templates
                          THEN prompted \cup {build_prompt(tgt.strategy, Val(context), None,
                                                           constraints_to_dict(config.constraints))}
                          ELSE prompted
           /\ last_error' = NextLastError(last_error, ErrorOrUnknown(generated.error))
           /\ last_meta' = generated.meta
           /\ lastAttempt' = [lastAttempt EXCEPT
                                ![target] = AttemptRecord(generated.error, <<>>, Val(pre))]
    /\ retries' = NextRetries(retries)
    /\ attempts' = [attempts EXCEPT ![target] = Bump(@)]
    /\ failed' = [failed EXCEPT ![target] = Bump(@)]
    /\ UNCHANGED <<config, environ, templates, repo, pc, target, context, reads,
                   last_violations, inFlight, calls, primary, fallback, result>>

\* One loop iteration up to the provider invocation: prompt composed, call issued
CallBackend ==
    /\ pc = "loop"
    /\ LoopGuard(retries, config.max_retries)
    /\ LET tgt == TargetOf(config, target)
       IN  /\ IsNone(PreCallFailure(tgt, templates))
           /\ prompted' = prompted \cup {build_prompt(tgt.strategy, Val(context), None,
                                                      constraints_to_dict(config.constraints))}
    /\ inFlight' = inFlight \cup {<<target, Bump(attempts[target])>>}
    /\ calls' = [calls EXCEPT ![target] = Bump(@)]
    /\ attempts' = [attempts EXCEPT ![target] = Bump(@)]
    /\ pc' = "calling"
    /\ UNCHANGED <<config, environ, templates, repo, target, context, reads, retries,
                   last_error, last_violations, last_meta, failed, lastAttempt,
                   primary, fallback, result>>

\* Store the EngineResult _run_target returns into the caller's local
ReturnFromRunTarget(res) ==
    /\ pc' = "returned"
    /\ IF target = "primary"
       THEN primary' = Some(res) /\ UNCHANGED fallback
       ELSE fallback' = Some(res) /\ UNCHANGED primary

\* The provider call ends (returns text or raises); rest of the iteration, lines 80-104
BackendRepliesWith(outcome, latency_ms) ==
    /\ pc = "calling"
    /\ inFlight' = inFlight \ {<<target, attempts[target]>>}
    /\  LET tgt == TargetOf(config, target)
             constraints == constraints_to_dict(config.constraints)
             generated == generate_commit(tgt, outcome)
             validation == validate_commit(Val(generated.commit), constraints)
             commit == [Val(generated.commit) EXCEPT !.word_count = validation.word_count]
         IN  IF IsNone(generated.commit)
             THEN /\ last_error' = NextLastError(last_error, ErrorOrUnknown(generated.error))
                  /\ last_meta' = generated.meta
                  /\ retries' = NextRetries(retries)
                  /\ failed' = [failed EXCEPT ![target] = Bump(@)]
                  /\ lastAttempt' = [lastAttempt EXCEPT
                                       ![target] = AttemptRecord(generated.error, <<>>,
                                                                 outcome.reason)]
                  /\ pc' = "loop"
                  /\ UNCHANGED <<last_violations, primary, fallback>>
             ELSE IF validation.violations = <<>>
             THEN /\ ReturnFromRunTarget(
                        SuccessResult(tgt, commit, retries, latency_ms, generated.meta))
                  /\ lastAttempt' = [lastAttempt EXCEPT ![target] = AttemptRecord(None, <<>>, <<>>)]
                  /\ UNCHANGED <<last_error, last_meta, retries, failed, last_violations>>
             ELSE /\ last_violations' = validation.violations
                  /\ last_error' = NextLastError(last_error, "validation_failed")
                  /\ retries' = NextRetries(retries)
                  /\ failed' = [failed EXCEPT ![target] = Bump(@)]
                  /\ lastAttempt' = [lastAttempt EXCEPT
                                       ![target] = AttemptRecord(Some("validation_failed"),
                                                                 validation.violations, <<>>)]
                  /\ pc' = "loop"
                  /\ UNCHANGED <<last_meta, primary, fallback>>
    /\ UNCHANGED <<config, environ, templates, repo, target, context, reads, calls,
                   attempts, prompted, result>>

\* whatever the provider does and however long the run has taken by then
BackendReplies ==
    \E outcome \in BackendOutcomes(TargetOf(config, target).provider, environ),
       latency_ms \in 0..MaxLatency : BackendRepliesWith(outcome, latency_ms)

\* The loop condition fails: lines 106-117
ExhaustWith(latency_ms) ==
    /\ pc = "loop"
    /\ ~LoopGuard(retries, config.max_retries)
    /\ ReturnFromRunTarget(
            ExhaustedResult(TargetOf(config, target), config.max_retries,
                            last_violations, last_error, last_meta, latency_ms))
    /\ UNCHANGED <<config, environ, templates, repo, target, context, reads, retries,
                   last_error, last_violations, last_meta, inFlight, calls, attempts,
                   failed, prompted, lastAttempt, result>>

Exhaust == \E latency_ms \in 0..MaxLatency : ExhaustWith(latency_ms)

\* run_once lines 155-160: the primary run succeeded
ReturnPrimary ==
    /\ pc = "returned" /\ target = "primary"
    /\ LET p == AnnotatePrimary(Val(primary), config)
       IN  /\ PrimarySucceeded(p)
           /\ primary' = Some(p)
           /\ result' = Some(p)
    /\ pc' = "done"
    /\ UNCHANGED <<config, environ, templates, repo, target, context, reads, retries,
                   last_error, last_violations, last_meta, inFlight, calls, attempts,
                   failed, prompted, lastAttempt, fallback>>

\* run_once lines 164-172: missing credential, no fallback
ShortCircuit ==
    /\ pc = "returned" /\ target = "primary"
    /\ LET p == AnnotatePrimary(Val(primary), config)
       IN  /\ ~PrimarySucceeded(p)
           /\ IsMissingCredential(p)
           /\ primary' = Some(ShortCircuitResult(p))
           /\ result' = Some(ShortCircuitResult(p))
    /\ pc' = "done"
    /\ UNCHANGED <<config, environ, templates, repo, target, context, reads, retries,
                   last_error, last_violations, last_meta, inFlight, calls, attempts,
                   failed, prompted, lastAttempt, fallback>>

\* run_once lines 174-188: enter the fallback run with the same context
StartFallback ==
    /\ pc = "returned" /\ target = "primary"
    /\ LET p == AnnotatePrimary(Val(primary), config)
       IN  /\ ~PrimarySucceeded(p)
           /\ ~IsMissingCredential(p)
           /\ primary' = Some(p)
    /\ EnterRunTarget("fallback")
    /\ UNCHANGED <<config, environ, templates, repo, context, reads, inFlight, calls,
                   attempts, failed, prompted, lastAttempt, fallback, result>>

\* run_once lines 189-199: annotate and return the fallback result
ReturnFallback ==
    /\ pc = "returned" /\ target = "fallback"
    /\ LET f == AnnotateFallback(Val(fallback), Val(primary), config)
       IN  /\ fallback' = Some(f)
           /\ result' = Some(f)
    /\ pc' = "done"
    /\ UNCHANGED <<config, environ, templates, repo, target, context, reads, retries,
                   last_error, last_violations, last_meta, inFlight, calls, attempts,
                   failed, prompted, lastAttempt, primary>>

\* Environment: the staged changes of the repository change under the program
RepoChanges ==
    /\ pc /= "done"
    /\ repo' \in Snapshots \ {repo}
    /\ UNCHANGED <<config, environ, templates, pc, target, context, reads, retries,
                   last_error, last_violations, last_meta, inFlight, calls, attempts,
                   failed, prompted, lastAttempt, primary, fallback, result>>

Step ==
    \/ Start
    \/ AttemptFailsBeforeCall
    \/ CallBackend
    \/ BackendReplies
    \/ Exhaust
    \/ ReturnPrimary
    \/ ShortCircuit
    \/ StartFallback
    \/ ReturnFallback

\* run_agent returns what run_once returns: no batch state, no run log, no
\* other caller of validate_commit (prod/app.py:25)
ProductionRun == UNCHANGED <<batchVars, toolVars>>

Next ==
    \/ Start /\ ProductionRun
    \/ AttemptFailsBeforeCall /\ ProductionRun
    \/ CallBackend /\ ProductionRun
    \/ BackendReplies /\ ProductionRun
    \/ Exhaust /\ ProductionRun
    \/ ReturnPrimary /\ ProductionRun
    \/ ShortCircuit /\ ProductionRun
    \/ StartFallback /\ ProductionRun
    \/ ReturnFallback /\ ProductionRun
    \/ RepoChanges /\ ProductionRun

Spec == Init /\ [][Next]_vars

\* Every backend call returns or raises, and the interpreter keeps running
LiveSpec == Spec /\ WF_vars(Step)

-----------------------------------------------------------------------------
(* Batch experiments (lab/batch.py, lab/runner.py) and the run log (core/logger.py) *)

\* A mapping (dict) is the sequence of its entries in insertion order
LabBatchConfig(providers, strategies, constraints) ==
    [providers |-> providers, strategies |-> strategies, constraints |-> constraints]

LabSingleConfig(provider, model, strategy, constraints) ==
    [provider |-> provider, model |-> model, strategy |-> strategy,
     constraints |-> constraints]

RECURSIVE Flatten(_)
\* expanded.append(...) over an inner loop: the inner lists one after the other
Flatten(lists) ==
    IF lists = <<>> THEN <<>> ELSE Head(lists) \o Flatten(Tail(lists))

\* Mutant: the innermost loop stops one constraint entry short
expand_batch_matrix_DropsLastLabel(bc) ==
    Flatten([p \in 1..Len(bc.providers) |->
      Flatten([m \in 1..Len(bc.providers[p].models) |->
        Flatten([s \in 1..Len(bc.strategies) |->
          [c \in 1..(Len(bc.constraints) - 1) |->
             [constraint_label |-> bc.constraints[c].label,
              single_config |-> LabSingleConfig(bc.providers[p].provider,
                                                bc.providers[p].models[m],
                                                bc.strategies[s],
                                                bc.constraints[c].constraint)]]])])])

\* Mutant: the strategy loop is nested inside the constraint loop
expand_batch_matrix_StrategyInnermost(bc) ==
    Flatten([p \in 1..Len(bc.providers) |->
      Flatten([m \in 1..Len(bc.providers[p].models) |->
        Flatten([c \in 1..Len(bc.constraints) |->
          [s \in 1..Len(bc.strategies) |->
             [constraint_label |-> bc.constraints[c].label,
              single_config |-> LabSingleConfig(bc.providers[p].provider,
                                                bc.providers[p].models[m],
                                                bc.strategies[s],
                                                bc.constraints[c].constraint)]]])])])

\* _expand_batch_matrix: provider, model, strategy, constraint label, innermost last
expand_batch_matrix(bc) ==
    Flatten([p \in 1..Len(bc.providers) |->
      Flatten([m \in 1..Len(bc.providers[p].models) |->
        Flatten([s \in 1..Len(bc.strategies) |->
          [c \in 1..Len(bc.constraints) |->
             [constraint_label |-> bc.constraints[c].label,
              single_config |-> LabSingleConfig(bc.providers[p].provider,
                                                bc.providers[p].models[m],
                                                bc.strategies[s],
                                                bc.constraints[c].constraint)]]])])])

\* lab/runner.py _to_prod_config: the fallback is the primary target again
to_prod_config(single, max_retries, timeout_seconds) ==
    LET tgt == [provider |-> single.provider, model |-> single.model,
                strategy |-> single.strategy]
    IN  ProdConfig(<<tgt, tgt>>, single.constraints, max_retries, timeout_seconds)

\* f"{index}:{provider}:{model}:{strategy}:{constraint_label}", as its segments
config_id(idx, single, constraint_label) ==
    <<idx, ":", single.provider, ":", single.model, ":", single.strategy, ":",
      constraint_label>>

BatchExperimentResult(idx, single, constraint_label, res) ==
    [config_id |-> config_id(idx, single, constraint_label),
     provider |-> single.provider, model |-> single.model, strategy |-> single.strategy,
     constraint_label |-> constraint_label, result |-> res]

\* RunLogger._serialize_result; the timestamp is the wall clock's reading
serialize_result(res) ==
    [schema_version |-> "1.0",
     timestamp_utc |-> "now",
     provider |-> res.meta.provider,
     model |-> res.meta.model,
     strategy |-> res.meta.strategy,
     valid |-> (Len(res.violations) = 0 /\ IsNone(res.error)),
     violations |-> res.violations,
     retries |-> res.retries,
     latency_ms |-> res.latency_ms,
     word_count |-> IF IsNone(res.commit) THEN None ELSE Val(res.commit).word_count]

\* RunLogger._append_jsonl: the file is opened in append mode and gets one line
append_jsonl(log, payload) == Append(log, payload)

\* RunLogger.log_run
log_run(log, res) == append_jsonl(log, serialize_result(res))

\* Matrices handed to run_batch_experiments. load_lab_config accepts any mapping
\* of lists, empty ones and repeated list entries included.
ProviderMappings ==
    { <<>>,
      <<[provider |-> "groq", models |-> <<>>]>>,
      <<[provider |-> "groq", models |-> <<"llama-3.1-8b-instant">>]>>,
      <<[provider |-> "openai", models |-> <<>>],
        [provider |-> "groq", models |-> <<"llama-3.1-8b-instant">>]>>,
      <<[provider |-> "groq", models |-> <<"llama-3.1-8b-instant", "llama-3.3-70b">>]>> }

StrategyLists == { <<>>, <<"baseline">>, <<"few_shot", "baseline">> }

ShortBounds == [label |-> "short", constraint |-> [min |-> 1, max |-> 3]]

LongBounds == [label |-> "long", constraint |-> [min |-> 3, max |-> 50]]

ConstraintMappings == { <<>>, <<ShortBounds>>, <<ShortBounds, LongBounds>> }

\* A matrix whose backends have several models each, one of them listed twice
WideMatrices ==
    { LabBatchConfig(<<[provider |-> "groq",
                        models |-> <<"llama-3.1-8b-instant", "llama-3.3-70b">>],
                       [provider |-> "openai",
                        models |-> <<"gpt-4o-mini", "gpt-4o-mini">>]>>,
                     <<"baseline">>, <<LongBounds>>) }

\* Matrices with a backend that answers (ollama needs no credential)
AnsweringMatrices ==
    { LabBatchConfig(<<[provider |-> "groq", models |-> <<"llama-3.1-8b-instant">>],
                       [provider |-> "ollama", models |-> <<"mistral">>]>>,
                     <<"baseline">>, <<LongBounds>>),
      LabBatchConfig(<<[provider |-> "ollama", models |-> <<"mistral">>],
                       [provider |-> "groq", models |-> <<"llama-3.1-8b-instant">>]>>,
                     <<"baseline">>, <<ShortBounds>>) }

BatchMatrices ==
    { LabBatchConfig(p, s, c) : p \in ProviderMappings, s \in StrategyLists,
                                c \in ConstraintMappings }
    \cup WideMatrices \cup AnsweringMatrices

\* Values of the max_retries argument of run_batch_experiments
BatchRetryCaps == {0, 1}

\* run_batch_experiments has been called: a lab host without GROQ_API_KEY whose
\* prompt directory holds the baseline template only
BatchInit ==
    /\ batch_config \in BatchMatrices
    /\ batch_retries \in BatchRetryCaps
    /\ bpc = "called"
    /\ expanded = <<>>
    /\ index = 0
    /\ rows = <<>>
    /\ runlog = <<>>
    /\ edited = FALSE
    /\ cellPrompts = <<>>
    /\ engineRuns = 0
    /\ targetRuns = 0
    /\ config = None
    /\ environ = [GROQ_API_KEY |-> FALSE]
    /\ templates = {"baseline"}
    /\ repo \in Snapshots
    /\ EngineLocals
    /\ NoToolCaller

\* lines 90-93: the logger and the row list are created, the matrix is expanded
BeginBatch ==
    /\ bpc = "called"
    /\ expanded' = expand_batch_matrix(batch_config)
    /\ rows' = <<>>
    /\ index' = 0
    /\ bpc' = "loop"
    /\ UNCHANGED <<batch_config, batch_retries, runlog, edited, cellPrompts, engineRuns,
                   targetRuns>>
    /\ UNCHANGED <<vars, toolVars>>

\* lines 93-100: the next cell is taken and run_single_experiment calls run_once
\* on its ProdConfig (lab/runner.py 66-72, core/engine.py 136)
StartCell ==
    /\ bpc = "loop"
    /\ index < Len(expanded)
    /\ index' = index + 1
    /\ config' = to_prod_config(expanded[index + 1].single_config, batch_retries, 60)
    /\ pc' = "start"
    /\ target' = "primary"
    /\ context' = None
    /\ reads' = 0
    /\ retries' = 0
    /\ last_error' = None
    /\ last_violations' = <<>>
    /\ last_meta' = EmptyMeta
    /\ inFlight' = {}
    /\ calls' = [t \in Runs |-> 0]
    /\ attempts' = [t \in Runs |-> 0]
    /\ failed' = [t \in Runs |-> 0]
    /\ prompted' = {}
    /\ lastAttempt' = [t \in Runs |-> None]
    /\ primary' = None
    /\ fallback' = None
    /\ result' = None
    /\ engineRuns' = engineRuns + 1
    /\ bpc' = "running"
    /\ UNCHANGED <<environ, templates, repo>>
    /\ UNCHANGED <<batch_config, batch_retries, expanded, rows, runlog, edited,
                   cellPrompts, targetRuns>>
    /\ UNCHANGED toolVars

\* run_once is at work for the current cell
InCell == bpc = "running" /\ UNCHANGED <<batchVars, toolVars>>

CellStep ==
    \/ InCell /\ Start
    \/ InCell /\ AttemptFailsBeforeCall
    \/ InCell /\ CallBackend
    \/ InCell /\ BackendReplies
    \/ InCell /\ Exhaust
    \/ InCell /\ ReturnPrimary
    \/ InCell /\ ShortCircuit
    \/ InCell /\ StartFallback
    \/ InCell /\ ReturnFallback

\* Mutant: a cell that ends without a candidate ends the batch, no rows returned
FinishCell_AbortsOnFailure ==
    /\ bpc = "running"
    /\ pc = "done"
    /\ IF IsNone(Val(result).commit)
       THEN /\ bpc' = "aborted"
            /\ UNCHANGED <<runlog, rows, cellPrompts, targetRuns>>
       ELSE /\ runlog' = log_run(runlog, Val(result))
            /\ rows' = Append(rows, BatchExperimentResult(index,
                                                          expanded[index].single_config,
                                                          expanded[index].constraint_label,
                                                          Val(result)))
            /\ cellPrompts' = Append(cellPrompts, prompted)
            /\ targetRuns' = targetRuns + (IF IsNone(fallback) THEN 1 ELSE 2)
            /\ bpc' = "loop"
    /\ UNCHANGED <<batch_config, batch_retries, expanded, index, edited, engineRuns>>
    /\ UNCHANGED <<vars, toolVars>>

\* lines 101-114: run_once has returned; the result is logged and the row appended
FinishCell ==
    /\ bpc = "running"
    /\ pc = "done"
    /\ runlog' = log_run(runlog, Val(result))
    /\ rows' = Append(rows, BatchExperimentResult(index, expanded[index].single_config,
                                                  expanded[index].constraint_label,
                                                  Val(result)))
    /\ cellPrompts' = Append(cellPrompts, prompted)
    /\ targetRuns' = targetRuns + (IF IsNone(fallback) THEN 1 ELSE 2)
    /\ bpc' = "loop"
    /\ UNCHANGED <<batch_config, batch_retries, expanded, index, edited, engineRuns>>
    /\ UNCHANGED <<vars, toolVars>>

\* line 116: the loop is over
ReturnRows ==
    /\ bpc = "loop"
    /\ index = Len(expanded)
    /\ bpc' = "returned"
    /\ UNCHANGED <<batch_config, batch_retries, expanded, index, rows, runlog, edited,
                   cellPrompts, engineRuns, targetRuns>>
    /\ UNCHANGED <<vars, toolVars>>

\* Environment: the user stages or unstages changes once while the batch runs
StagingChanges ==
    /\ bpc \in {"called", "loop", "running"}
    /\ ~edited
    /\ edited' = TRUE
    /\ RepoChanges
    /\ UNCHANGED <<batch_config, batch_retries, bpc, expanded, index, rows, runlog,
                   cellPrompts, engineRuns, targetRuns>>
    /\ UNCHANGED toolVars

BatchNext ==
    \/ BeginBatch
    \/ StartCell
    \/ CellStep
    \/ FinishCell
    \/ ReturnRows
    \/ StagingChanges

BatchSpec == BatchInit /\ [][BatchNext]_allVars

\* The batch is one blocking thread: every call it makes returns
BatchLiveSpec ==
    BatchSpec /\ WF_<<vars, batchVars>>(BeginBatch \/ StartCell \/ CellStep
                                        \/ FinishCell \/ ReturnRows)

-----------------------------------------------------------------------------
(* A caller of validate_commit: candidates and bounds of every shape *)

\* Largest length of a type token drawn from TypeAlphabet
MaxTypeLen == 2

\* Largest word-count bound (min or max) drawn besides the shipped 3..50
MaxBound == 3

\* Largest number of validate_commit calls one caller makes
MaxCalls == 2

\* Lowercase letters, an uppercase letter, a digit, punctuation, white space and
\* the line break
TypeAlphabet == {"a", "z", "A", "7", "-", " ", "\n"}

TypeTokens == UNION { [1..n -> TypeAlphabet] : n \in 0..MaxTypeLen }

Chars_fix == <<"f","i","x">>

\* "fix: correct off-by-one in parser"
Chars_fix_off_by_one ==
    <<"f","i","x",":"," ","c","o","r","r","e","c","t"," ","o","f","f","-","b","y","-",
      "o","n","e"," ","i","n"," ","p","a","r","s","e","r">>

\* commit.type: absent, any token over TypeAlphabet, a usual type, the same
\* type followed by a line break
Types ==
    {None} \cup {Some(t) : t \in TypeTokens}
           \cup {Some(Chars_fix), Some(Chars_fix \o <<"\n">>)}

\* commit.subject: absent, empty, blank, short texts, and texts at and just
\* above the length limit
Subjects ==
    { None, Some(<<>>), Some(<<" ", " ">>), Some(Chars_add_cache),
      Some(Chars_fix_off_by_one),
      Some(Repeat("x", MaxSubjectLen)), Some(Repeat("x", MaxSubjectLen + 1)) }

\* commit.body: absent, empty, blank, a text
Bodies == { None, Some(<<>>), Some(<<" ", "\n">>), Some(Chars_speeds_up_reads) }

\* Every type with two subjects, and every subject and body with three types
Candidates ==
    { CommitMessage(t, None, sb, None, None) :
          t \in Types, sb \in {None, Some(Chars_add_cache)} }
    \cup
    { CommitMessage(t, None, sb, b, None) :
          t \in {None, Some(Chars_fix), Some(<<"A">>)}, sb \in Subjects, b \in Bodies }

\* constraints dicts: each bound unset or an int; nothing orders min and max
BoundChoices ==
    { [min |-> lo, max |-> hi] :
          lo \in {None} \cup {Some(n) : n \in 0..MaxBound},
          hi \in {None} \cup {Some(n) : n \in 0..MaxBound} }
    \cup { [min |-> Some(3), max |-> Some(50)] }

ValidatorInit ==
    /\ candidate \in Candidates
    /\ limits \in BoundChoices
    /\ validations = <<>>
    /\ config = None
    /\ environ = [GROQ_API_KEY |-> FALSE]
    /\ templates = {}
    /\ repo \in {s \in Snapshots : s.deletions = 0}
    /\ EngineLocals
    /\ NoBatch
    /\ NoNormalizerCaller
    /\ NoMetricsCaller
    /\ NoCompareCaller
    /\ NoTwin

\* validation = validate_commit(commit, constraints): the arguments are read only
Validate ==
    /\ Len(validations) < MaxCalls
    /\ validations' = Append(validations, validate_commit(candidate, limits))
    /\ UNCHANGED <<candidate, limits>>
    /\ UNCHANGED <<vars, batchVars, normalizerVars, metricsVars, compareVars, twinVars>>

\* commit.word_count = validation.word_count: what the engine does with the
\* result of the call (core/engine.py line 85)
RecordWordCount ==
    /\ validations /= <<>>
    /\ candidate.word_count /= validations[Len(validations)].word_count
    /\ candidate' = [candidate EXCEPT !.word_count = validations[Len(validations)].word_count]
    /\ UNCHANGED <<limits, validations>>
    /\ UNCHANGED <<vars, batchVars, normalizerVars, metricsVars, compareVars, twinVars>>

ValidatorNext == Validate \/ RecordWordCount

ValidatorSpec == ValidatorInit /\ [][ValidatorNext]_allVars

-----------------------------------------------------------------------------
(* A caller of the response normalizer: core/generator.py lines 193-203 *)

\* The engine is not running: no config, no credential, no template
NoEngine ==
    /\ config = None
    /\ environ = [GROQ_API_KEY |-> FALSE]
    /\ templates = {}
    /\ repo = CHOOSE s \in Snapshots : s.deletions = 0
    /\ EngineLocals

\* What a backend may put before the payload: nothing, a fence, a fence tagged json
LeadingNoise ==
    { <<>>, <<Fence>>, <<Fence, Word("json")>>, <<Fence, Word("json"), Space>>,
      <<Space, Fence, Space>> }

\* What a backend may put after the payload
TrailingNoise == { <<>>, <<Fence>>, <<Space, Fence>>, <<Space, Fence, Space>>, <<Space>> }

\* A key of the decoded object: missing, text, a value that is not text, or null
FieldValues(s) == {None, JsonText(s), JsonNonText, JsonNull}

JsonObjects ==
    { JsonObject(t, sc, sb, b) :
          t \in FieldValues(Chars_fix), sc \in FieldValues(<<"a","p","i">>),
          sb \in FieldValues(Chars_add_cache), b \in FieldValues(Chars_speeds_up_reads) }

SubjectOnly == JsonObject(None, None, JsonText(Chars_add_cache), None)

\* Payloads json.loads rejects: nothing, prose, prose around a value, two values
Undecodable ==
    { <<>>, <<Word("Sure")>>, <<Word("JSON"), Space, Json(SubjectOnly)>>,
      <<Json(SubjectOnly), Space, Json(SubjectOnly)>>,
      <<Json(SubjectOnly), Space, Fence, Space, Word("Done")>> }

Payloads == { <<Json(v)>> : v \in JsonObjects \cup {JsonArray, JsonScalar} } \cup Undecodable

Wrap(lead, payload, trail) == lead \o payload \o trail

Responses == { Wrap(l, p, t) : l \in LeadingNoise, p \in Payloads, t \in TrailingNoise }

NormalizerInit ==
    /\ response \in Responses
    /\ decoded = None
    /\ NoEngine
    /\ NoBatch
    /\ NoValidatorCaller
    /\ NoMetricsCaller
    /\ NoCompareCaller
    /\ NoTwin

\* lines 193-203 of generate_commit, the provider having returned response
Decode ==
    /\ IsNone(decoded)
    /\ decoded' = Some(generate_commit(OllamaTarget, Returned(response)))
    /\ UNCHANGED response
    /\ UNCHANGED <<vars, batchVars, validatorVars, metricsVars, compareVars, twinVars>>

NormalizerNext == Decode

NormalizerSpec == NormalizerInit /\ [][NormalizerNext]_allVars

-----------------------------------------------------------------------------
(* lab/metrics.py: compute_metrics.  A float is modelled by the exact fraction *)

\* Longest sequence of results handed to compute_metrics
MaxResults == 3

RECURSIVE GCD(_, _)
GCD(a, b) == IF b = 0 THEN a ELSE GCD(b, a % b)

\* The value num/den, den > 0, in lowest terms: equal values are equal records
Rat(num, den) ==
    LET g == GCD(IF num < 0 THEN 0 - num ELSE num, den)
    IN  [num |-> num \div g, den |-> den \div g]

RatEq(a, b) == a.num * b.den = b.num * a.den

RatLess(a, b) == a.num * b.den < b.num * a.den

\* sum(...) of a list of ints
RECURSIVE SumSeq(_)
SumSeq(xs) == IF Len(xs) = 0 THEN 0 ELSE Head(xs) + SumSeq(Tail(xs))

IsValidRun_IgnoresError(res) == Len(res.violations) = 0

\* line 45: not result.violations and result.error is None
IsValidRun(res) == Len(res.violations) = 0 /\ IsNone(res.error)

IsRetriedRun_AtLeastZero(res) == res.retries >= 0

\* line 47: result.retries > 0
IsRetriedRun(res) == res.retries > 0

\* lines 50-54: result.commit is not None and result.commit.word_count is not None
HasWordCount(res) == ~IsNone(res.commit) /\ ~IsNone(Val(res.commit).word_count)

\* lines 59-62: one increment for every entry of every violation list
RECURSIVE CountViolations(_, _)
CountViolations(results, c) ==
    IF Len(results) = 0 THEN 0
    ELSE Cardinality({j \in 1..Len(Head(results).violations) : Head(results).violations[j] = c})
         + CountViolations(Tail(results), c)

ViolationsSeen(results) ==
    UNION { {results[i].violations[j] : j \in 1..Len(results[i].violations)} :
                i \in 1..Len(results) }

compute_metrics(results) ==
    IF Len(results) = 0
    THEN [valid_rate |-> Rat(0, 1), average_latency |-> Rat(0, 1), retry_rate |-> Rat(0, 1),
          average_word_count |-> Rat(0, 1), violation_frequency |-> <<>>]
    ELSE LET total_runs == Len(results)
             valid_runs == SumSeq([i \in 1..total_runs |-> IF IsValidRun(results[i]) THEN 1 ELSE 0])
             average_latency == Rat(SumSeq([i \in 1..total_runs |-> results[i].latency_ms]), total_runs)
             retried_runs == SumSeq([i \in 1..total_runs |-> IF IsRetriedRun(results[i]) THEN 1 ELSE 0])
             counted == SelectSeq(results, HasWordCount)
             word_counts == [i \in 1..Len(counted) |-> Val(Val(counted[i].commit).word_count)]
             average_word_count ==
                 IF Len(word_counts) > 0 THEN Rat(SumSeq(word_counts), Len(word_counts))
                 ELSE Rat(0, 1)
         IN  [valid_rate |-> Rat(valid_runs, total_runs),
              average_latency |-> average_latency,
              retry_rate |-> Rat(retried_runs, total_runs),
              average_word_count |-> average_word_count,
              violation_frequency |->
                  [c \in ViolationsSeen(results) |-> CountViolations(results, c)]]

-----------------------------------------------------------------------------
(* A caller of compute_metrics *)

AddCache2 == CommitMessage(None, None, Some(Chars_add_cache), None, Some(2))

FeatCache5 ==
    CommitMessage(Some(<<"f","e","a","t">>), None, Some(Chars_add_cache),
                  Some(Chars_speeds_up_reads), Some(5))

ProviderMeta(tgt) ==
    [EmptyMeta EXCEPT !.provider = Some(tgt.provider), !.model = Some(tgt.model)]

\* EngineResults as _run_target returns them: first-attempt success, success
\* after a retry, exhausted on validation, exhausted on a missing credential,
\* exhausted on a decoding error after a validation failure, negative retry cap
SampleResults ==
    { SuccessResult(OllamaTarget, AddCache2, 0, 120, ProviderMeta(OllamaTarget)),
      SuccessResult(OllamaTarget, FeatCache5, 1, 900, ProviderMeta(OllamaTarget)),
      ExhaustedResult(OllamaTarget, 2, <<"subject_missing", "word_count_below_min">>,
                      Some("validation_failed"), EmptyMeta, 2500),
      ExhaustedResult(OllamaTarget, 1, <<"word_count_above_max">>,
                      Some("validation_failed"), EmptyMeta, 40),
      ExhaustedResult(GroqTarget, 0, <<>>, Some("provider_error"),
                      [EmptyMeta EXCEPT !.reason = Some(MissingKeyReason)], 0),
      ExhaustedResult(OllamaTarget, 1, <<"word_count_below_min">>,
                      Some("invalid_json"), EmptyMeta, 7),
      ExhaustedResult(OllamaTarget, 0 - 1, <<>>, None, EmptyMeta, 0) }

ResultLists == UNION { [1..n -> SampleResults] : n \in 0..MaxResults }

MetricsInit ==
    /\ run_results \in ResultLists
    /\ summary = None
    /\ NoEngine
    /\ NoBatch
    /\ NoValidatorCaller
    /\ NoNormalizerCaller
    /\ NoCompareCaller
    /\ NoTwin

\* summary = compute_metrics(results)
Aggregate ==
    /\ IsNone(summary)
    /\ summary' = Some(compute_metrics(run_results))
    /\ UNCHANGED run_results
    /\ UNCHANGED <<vars, batchVars, validatorVars, normalizerVars, compareVars, twinVars>>

MetricsNext == Aggregate

MetricsSpec == MetricsInit /\ [][MetricsNext]_allVars

-----------------------------------------------------------------------------
(* lab/compare.py: _score_metrics and compare_configs *)

\* Largest number of configurations handed to compare_configs
MaxConfigs == 3

RatScale(a, k) == Rat(a.num * k, a.den)

RatOver(a, k) == Rat(a.num, a.den * k)

RatSub(a, b) == Rat(a.num * b.den - b.num * a.den, a.den * b.den)

\* metrics.get(key, 0.0)
GetOrZero(field) == IF IsNone(field) THEN Rat(0, 1) ELSE Val(field)

\* (valid_rate * 100.0) - (retry_rate * 20.0) - (average_latency / 1000.0)
score_metrics(metrics) ==
    LET valid_rate == GetOrZero(metrics.valid_rate)
        retry_rate == GetOrZero(metrics.retry_rate)
        average_latency == GetOrZero(metrics.average_latency)
    IN  RatSub(RatSub(RatScale(valid_rate, 100), RatScale(retry_rate, 20)),
               RatOver(average_latency, 1000))

\* ord(c) of the characters configuration ids are written in
CharCode == ("0" :> 48) @@ ("1" :> 49) @@ ("2" :> 50) @@ ("a" :> 97)

\* str < str: lexicographic by code point
RECURSIVE StrLess(_, _)
StrLess(a, b) ==
    IF Len(b) = 0 THEN FALSE
    ELSE IF Len(a) = 0 THEN TRUE
    ELSE IF a[1] = b[1] THEN StrLess(Tail(a), Tail(b))
    ELSE CharCode[a[1]] < CharCode[b[1]]

KeyLess_ScoreOnly(a, b) == RatLess(b[2], a[2])

\* key(a) < key(b) for key = lambda item: (-item[1], item[0])
KeyLess(a, b) == RatLess(b[2], a[2]) \/ (RatEq(a[2], b[2]) /\ StrLess(a[1], b[1]))

\* list.sort is stable: an item goes after every item whose key is not greater
RECURSIVE Insert(_, _)
Insert(sorted, item) ==
    IF Len(sorted) = 0 THEN <<item>>
    ELSE IF KeyLess(item, Head(sorted)) THEN <<item>> \o sorted
    ELSE <<Head(sorted)>> \o Insert(Tail(sorted), item)

RECURSIVE Sort(_)
Sort(items) ==
    IF Len(items) = 0 THEN <<>>
    ELSE Insert(Sort(SubSeq(items, 1, Len(items) - 1)), items[Len(items)])

\* metrics_by_config.items() as the sequence of (config_id, metrics) pairs
compare_configs(items) ==
    Sort([i \in 1..Len(items) |-> <<items[i][1], score_metrics(items[i][2])>>])

-----------------------------------------------------------------------------
(* A caller of compare_configs *)

ConfigIds == { <<"1">>, <<"2">>, <<"1", "0">>, <<"a">> }

Metrics(valid_rate, retry_rate, average_latency) ==
    [valid_rate |-> valid_rate, retry_rate |-> retry_rate, average_latency |-> average_latency]

\* Metrics of batches of five or six runs, and mappings with keys missing
MetricsChoices ==
    { Metrics(Some(Rat(6, 6)), Some(Rat(6, 6)), Some(Rat(0, 1))),
      Metrics(Some(Rat(5, 6)), Some(Rat(0, 6)), Some(Rat(0, 1))),
      Metrics(Some(Rat(4, 5)), Some(Rat(0, 5)), Some(Rat(0, 1))),
      Metrics(Some(Rat(6, 6)), Some(Rat(0, 6)), Some(Rat(30000, 1))),
      Metrics(Some(Rat(1, 1)), None, None),
      Metrics(None, None, None) }

\* dicts: every key once, in any insertion order
Mappings ==
    UNION { { f \in [1..n -> ConfigIds \X MetricsChoices] :
                  \A i, j \in 1..n : i /= j => f[i][1] /= f[j][1] } : n \in 0..MaxConfigs }

CompareInit ==
    /\ metrics_by_config \in Mappings
    /\ scored = None
    /\ NoEngine
    /\ NoBatch
    /\ NoValidatorCaller
    /\ NoNormalizerCaller
    /\ NoMetricsCaller
    /\ NoTwin

\* ranking = compare_configs(metrics_by_config)
Rank ==
    /\ IsNone(scored)
    /\ scored' = Some(compare_configs(metrics_by_config))
    /\ UNCHANGED metrics_by_config
    /\ UNCHANGED <<vars, batchVars, validatorVars, normalizerVars, metricsVars, twinVars>>

CompareNext == Rank

CompareSpec == CompareInit /\ [][CompareNext]_allVars

-----------------------------------------------------------------------------
(* A caller that runs run_once twice on configs that differ in timeout_seconds, *)
(* the backend answering the second invocation as it answered the first        *)

\* timeout_seconds of the two invocations; after 0 seconds any run is overdue
TwinTimeouts == [first |-> 60, second |-> 0]

TwinCaps == {0, 1}

\* primary answers and the fallback is unregistered; missing credential; both answer
TwinDeployments ==
    { d \in Deployments :
          \/ d.pair = <<OllamaTarget, OpenAITarget>>
          \/ d.pair = <<GroqTarget, OllamaTarget>> /\ ~d.GROQ_API_KEY
          \/ d.pair = <<GroqTarget, GroqTarget>> }

\* One thing the world did to the run: a provider call ended in outcome after
\* latency_ms, or (outcome None) the clock read latency_ms when the loop gave up
Event(outcome, latency_ms) == [outcome |-> outcome, latency_ms |-> latency_ms]

TwinInit ==
    /\ \E d \in TwinDeployments, r \in TwinCaps :
          /\ config = ProdConfig(d.pair, [min |-> 1, max |-> 3], r, TwinTimeouts.first)
          /\ environ = [GROQ_API_KEY |-> d.GROQ_API_KEY]
          /\ templates = d.templates
    /\ repo = CHOOSE s \in Snapshots : s.deletions = 0
    /\ EngineLocals
    /\ NoBatch
    /\ NoValidatorCaller
    /\ NoNormalizerCaller
    /\ NoMetricsCaller
    /\ NoCompareCaller
    /\ twin_pc = "first"
    /\ tape = <<>>
    /\ first_run = None

OutsideTwin == UNCHANGED <<batchVars, validatorVars, normalizerVars, metricsVars, compareVars>>

\* run_once is at work in one of the two invocations; nothing is chosen
InTwin == twin_pc \in {"first", "second"} /\ UNCHANGED twinVars /\ OutsideTwin

\* first invocation: the provider call ends in some way, which is noted
FirstReply ==
    /\ twin_pc = "first"
    /\ \E outcome \in BackendOutcomes(TargetOf(config, target).provider, environ),
          latency_ms \in 0..MaxLatency :
          /\ BackendRepliesWith(outcome, latency_ms)
          /\ tape' = Append(tape, Event(Some(outcome), latency_ms))
    /\ UNCHANGED <<twin_pc, first_run>>
    /\ OutsideTwin

FirstExhaust ==
    /\ twin_pc = "first"
    /\ \E latency_ms \in 0..MaxLatency :
          /\ ExhaustWith(latency_ms)
          /\ tape' = Append(tape, Event(None, latency_ms))
    /\ UNCHANGED <<twin_pc, first_run>>
    /\ OutsideTwin

\* the first invocation has returned; run_once is called again on the same
\* config but for timeout_seconds
StartSecond ==
    /\ twin_pc = "first"
    /\ pc = "done"
    /\ first_run' = Some([result |-> Val(result), primary |-> primary, fallback |-> fallback,
                          calls |-> calls, attempts |-> attempts, prompted |-> prompted,
                          timeout_seconds |-> config.timeout_seconds])
    /\ config' = [config EXCEPT !.timeout_seconds = TwinTimeouts.second]
    /\ pc' = "start"
    /\ target' = "primary"
    /\ context' = None
    /\ reads' = 0
    /\ retries' = 0
    /\ last_error' = None
    /\ last_violations' = <<>>
    /\ last_meta' = EmptyMeta
    /\ inFlight' = {}
    /\ calls' = [t \in Runs |-> 0]
    /\ attempts' = [t \in Runs |-> 0]
    /\ failed' = [t \in Runs |-> 0]
    /\ prompted' = {}
    /\ lastAttempt' = [t \in Runs |-> None]
    /\ primary' = None
    /\ fallback' = None
    /\ result' = None
    /\ twin_pc' = "second"
    /\ UNCHANGED <<environ, templates, repo, tape>>
    /\ OutsideTwin

\* second invocation: the provider call ends as the corresponding call did
SecondReply ==
    /\ twin_pc = "second"
    /\ tape /= <<>>
    /\ ~IsNone(Head(tape).outcome)
    /\ BackendRepliesWith(Val(Head(tape).outcome), Head(tape).latency_ms)
    /\ tape' = Tail(tape)
    /\ UNCHANGED <<twin_pc, first_run>>
    /\ OutsideTwin

SecondExhaust ==
    /\ twin_pc = "second"
    /\ tape /= <<>>
    /\ IsNone(Head(tape).outcome)
    /\ ExhaustWith(Head(tape).latency_ms)
    /\ tape' = Tail(tape)
    /\ UNCHANGED <<twin_pc, first_run>>
    /\ OutsideTwin

TwinNext ==
    \/ InTwin /\ Start
    \/ InTwin /\ AttemptFailsBeforeCall
    \/ InTwin /\ CallBackend
    \/ InTwin /\ ReturnPrimary
    \/ InTwin /\ ShortCircuit
    \/ InTwin /\ StartFallback
    \/ InTwin /\ ReturnFallback
    \/ FirstReply
    \/ FirstExhaust
    \/ StartSecond
    \/ SecondReply
    \/ SecondExhaust

TwinSpec == TwinInit /\ [][TwinNext]_allVars

-----------------------------------------------------------------------------
(* Properties *)

ErrorCodes == {"provider_error", "invalid_json", "invalid_schema", "validation_failed"}

\* The EngineResult the run in progress has just returned (pc = "returned")
RunResult == IF target = "primary" THEN Val(primary) ELSE Val(fallback)

\* The most recent attempt of run t failed / produced a valid candidate
LastFailed(t) == ~IsNone(lastAttempt[t]) /\ ~IsNone(Val(lastAttempt[t]).error)

LastValid(t) == ~IsNone(lastAttempt[t]) /\ IsNone(Val(lastAttempt[t]).error)

\* The error code of the last attempt of run t (None when the run made no attempt)
TerminalError(t) == IF IsNone(lastAttempt[t]) THEN None ELSE Val(lastAttempt[t]).error

\* The last attempt of the primary run raised the missing-credential error
PrimaryMissingCredential ==
    /\ LastFailed("primary")
    /\ Val(lastAttempt["primary"]).error = Some("provider_error")
    /\ Val(lastAttempt["primary"]).reason = MissingKeyReason

\* The primary run is over and did not succeed
PrimaryExhausted ==
    /\ ~IsNone(primary)
    /\ ~LastValid("primary")
    /\ (target = "primary" => pc \in {"returned", "done"})

\* C1: for every retry cap R >= 0 and whatever the backend answers, one run of
\* _run_target against one target makes at most R+1 backend invocations (and at
\* most R+1 attempts).
C1_AtMostRPlusOneInvocations ==
    config.max_retries >= 0 =>
        \A t \in Runs : /\ calls[t] <= config.max_retries + 1
                        /\ attempts[t] <= config.max_retries + 1

\* C1 witness: an always-failing backend has been invoked R+1 times, R the
\* largest cap, and the primary run has returned exhausted.
C1_Witness ==
    /\ config.max_retries = MaxRetries
    /\ pc = "returned" /\ target = "primary"
    /\ calls["primary"] = MaxRetries + 1
    /\ failed["primary"] = MaxRetries + 1
    /\ IsNone(Val(primary).commit)

\* C2: in one run_once the fallback target is run if and only if the primary run
\* did not succeed and its terminal error is not a provider_error whose reason
\* names the missing credential.
C2_FallbackIffPrimaryFailedNotCredential ==
    /\ target = "fallback" => (PrimaryExhausted /\ ~PrimaryMissingCredential)
    /\ (pc = "done" /\ PrimaryExhausted /\ ~PrimaryMissingCredential)
          => (target = "fallback" /\ ~IsNone(fallback))

\* C2 witness: the invocation is over, the primary ended in a provider_error
\* that is not the missing credential, and the fallback was run.
C2_Witness ==
    /\ pc = "done" /\ target = "fallback"
    /\ TerminalError("primary") = Some("provider_error")
    /\ ~PrimaryMissingCredential
    /\ attempts["fallback"] > 0

\* C3: whenever the coordinator ran the fallback target, what it returns is the
\* fallback run's result with fallback_used = true, primary_error = the primary
\* run's terminal error and primary_retries = the primary's consumed retries;
\* with cap 1, a primary failing validation and a fallback valid at its first
\* attempt give primary_retries = 1, primary_error = validation_failed and a
\* candidate.
C3_FallbackResultAnnotated ==
    (pc = "done" /\ target = "fallback") =>
        LET res == Val(result)
        IN  /\ res = Val(fallback)
            /\ res.meta.fallback_used = Some(TRUE)
            /\ res.meta.primary_error = Some(TerminalError("primary"))
            /\ res.meta.primary_retries = Some(Val(primary).retries)
            /\ Val(primary).retries = config.max_retries
            /\ res.meta.provider = Some(config.fallback.provider)
            /\ (LastValid("fallback") <=> ~IsNone(res.commit))
            /\ res.error = TerminalError("fallback")
            /\ (config.max_retries = 1 /\ TerminalError("primary") = Some("validation_failed")
                  /\ attempts["fallback"] = 1 /\ LastValid("fallback"))
               => /\ res.meta.primary_retries = Some(1)
                  /\ res.meta.primary_error = Some(Some("validation_failed"))
                  /\ ~IsNone(res.commit)
                  /\ res.retries = 0

\* C3 witness: cap 1, the primary failed validation at both attempts' end, the
\* fallback validated at once, and run_once has returned.
C3_Witness ==
    /\ pc = "done" /\ target = "fallback"
    /\ config.max_retries = 1
    /\ failed["primary"] = 2
    /\ TerminalError("primary") = Some("validation_failed")
    /\ attempts["fallback"] = 1 /\ LastValid("fallback")
    /\ ~IsNone(Val(result).commit)

\* C4 (as claimed): an exhausted run's violation list is that of its last
\* attempt, so it is empty whenever the last attempt failed with provider_error,
\* invalid_json or invalid_schema, also after an earlier validation failure.
C4_ExhaustedViolationsAreLastAttempts ==
    (pc = "returned" /\ LastFailed(target)) =>
        RunResult.violations = Val(lastAttempt[target]).violations

\* C5: a run with cap R >= 0 that ends exhausted returns no candidate and the
\* error code of its last, (R+1)-th, attempt, one of the four codes; an earlier
\* attempt's code never survives.
C5_ExhaustedErrorIsLastAttempts ==
    (pc = "returned" /\ config.max_retries >= 0) =>
        /\ IsNone(RunResult.commit) <=> LastFailed(target)
        /\ LastFailed(target) =>
              /\ RunResult.error = Val(lastAttempt[target]).error
              /\ Val(RunResult.error) \in ErrorCodes
              /\ attempts[target] = config.max_retries + 1
              /\ failed[target] = config.max_retries + 1

\* C5 witness: an exhausted run whose last attempt was undecodable text while
\* an earlier attempt had failed validation.
C5_Witness ==
    /\ pc = "returned" /\ config.max_retries >= 1
    /\ IsNone(RunResult.commit)
    /\ RunResult.error = Some("invalid_json")
    /\ last_violations /= <<>>

\* C6: when the primary run ends in provider_error with the missing-credential
\* reason, no fallback attempt is ever made and run_once returns the primary
\* result: no candidate, fallback_used = false, error replaced by the
\* configuration-error message.
C6_MissingCredentialShortCircuits ==
    (PrimaryMissingCredential /\ ~IsNone(primary)) =>
        /\ target = "primary"
        /\ attempts["fallback"] = 0 /\ calls["fallback"] = 0 /\ IsNone(fallback)
        /\ pc = "done" =>
              /\ result = primary
              /\ IsNone(Val(result).commit)
              /\ Val(result).meta.fallback_used = Some(FALSE)
              /\ IsNone(Val(result).meta.primary_error)
              /\ Val(result).error = Some(ConfigErrorMessage)

\* C6 witness: groq without a key as primary, a usable ollama fallback, and
\* run_once has returned the configuration error.
C6_Witness ==
    /\ pc = "done" /\ PrimaryMissingCredential
    /\ config.fallback.provider = "ollama"
    /\ config.max_retries = MaxRetries
    /\ Val(result).error = Some(ConfigErrorMessage)

\* C7: when an attempt's candidate validates with no violations the run stops
\* at once (that attempt is its last) and returns the candidate, its word count
\* set from validation, no violations, no error, and retries = the number of
\* failed attempts before it, between 0 and R.
C7_ValidCandidateStopsAtOnce ==
    \A t \in Runs :
        LastValid(t) =>
            LET res == IF t = "primary" THEN Val(primary) ELSE Val(fallback)
                bounds == constraints_to_dict(config.constraints)
            IN  /\ attempts[t] = failed[t] + 1
                /\ target = t /\ pc \in {"returned", "done"}
                /\ ~IsNone(res.commit)
                /\ validate_commit(Val(res.commit), bounds).violations = <<>>
                /\ Val(res.commit).word_count = validate_commit(Val(res.commit), bounds).word_count
                /\ Val(Val(res.commit).word_count) \in config.constraints.min..config.constraints.max
                /\ res.violations = <<>>
                /\ IsNone(res.error)
                /\ res.retries = failed[t]
                /\ 0 <= res.retries /\ res.retries <= config.max_retries

\* C7 witness: a run that validated at its last allowed attempt, after
\* MaxRetries failures.
C7_Witness ==
    /\ pc = "returned" /\ LastValid(target)
    /\ config.max_retries = MaxRetries
    /\ RunResult.retries = MaxRetries
    /\ failed[target] = MaxRetries

\* C8: provided every backend call returns or raises, every _run_target run
\* reaches a terminal state and every run_once returns a result, even when the
\* backend fails at every call.
C8_EveryRunTerminates ==
    /\ <>(pc = "done" /\ ~IsNone(result))
    /\ [](pc \in {"loop", "calling"} => <>(pc = "returned"))

\* C8 witness: run_once has returned after the backend failed at every call of
\* both runs, each R+1 attempts long, R the largest cap.
C8_Witness ==
    /\ pc = "done" /\ config.max_retries = MaxRetries
    /\ calls["primary"] = MaxRetries + 1 /\ failed["primary"] = MaxRetries + 1
    /\ calls["fallback"] = MaxRetries + 1 /\ failed["fallback"] = MaxRetries + 1
    /\ IsNone(Val(result).commit)

\* C9: backend calls are strictly sequential: at most one is in flight, and no
\* fallback attempt starts before the primary run has ended exhausted with all
\* of its attempts completed.
C9_CallsSequentialFallbackAfterPrimary ==
    /\ Cardinality(inFlight) <= 1
    /\ inFlight /= {} => (pc = "calling" /\ inFlight = {<<target, attempts[target]>>})
    /\ (target = "fallback" \/ attempts["fallback"] > 0 \/ calls["fallback"] > 0) =>
          /\ PrimaryExhausted
          /\ IsNone(Val(primary).commit)
          /\ \A c \in inFlight : c[1] = "fallback"
          /\ config.max_retries >= 0 =>
                /\ attempts["primary"] = config.max_retries + 1
                /\ failed["primary"] = config.max_retries + 1

\* C9 witness: the first fallback call is in flight after the primary used all
\* of its R+1 calls.
C9_Witness ==
    /\ inFlight = {<<"fallback", 1>>}
    /\ config.max_retries = MaxRetries
    /\ calls["primary"] = MaxRetries + 1

\* C10: the snapshot is read exactly once, before the primary run, whether one
\* or two targets are tried, and every prompt of both runs is composed from that
\* same snapshot, which is never changed afterwards.
C10_SnapshotReadOnceAndShared ==
    /\ pc = "start" =>
          /\ reads = 0 /\ IsNone(context) /\ prompted = {}
          /\ \A t \in Runs : attempts[t] = 0
    /\ pc /= "start" =>
          /\ reads = 1 /\ ~IsNone(context)
          /\ \A p \in prompted : /\ p.diff = Val(context).diff
                                 /\ p.status = Val(context).status

\* C10 witness: both targets have called the backend, the repository has
\* changed since the read, and run_once has returned.
C10_Witness ==
    /\ pc = "done" /\ reads = 1
    /\ calls["primary"] > 0 /\ calls["fallback"] > 0
    /\ repo /= Val(context)

-----------------------------------------------------------------------------
(* Properties of a batch run *)

RECURSIVE ModelCount(_)
\* Sum over the backends of a providers mapping of the length of their model list
ModelCount(providers) ==
    IF providers = <<>> THEN 0
    ELSE Len(Head(providers).models) + ModelCount(Tail(providers))

\* Number of cells of a matrix: models x strategies x constraint labels
CellCount(bc) == ModelCount(bc.providers) * Len(bc.strategies) * Len(bc.constraints)

\* C11: a batch run returns exactly (sum over backends of model count) x
\* |strategies| x |constraint labels| rows after as many engine runs, the k-th
\* row id carrying index k, so distinct and sequential 1..n; a matrix with an
\* empty dimension gives no row and no engine run.
C11_RowCountIsMatrixProduct ==
    LET n == CellCount(batch_config)
    IN  /\ Len(rows) <= n /\ engineRuns <= n
        /\ n = 0 => (rows = <<>> /\ engineRuns = 0)
        /\ bpc = "returned" =>
              /\ Len(rows) = n
              /\ engineRuns = n
              /\ \A k \in 1..n : rows[k].config_id[1] = k
              /\ \A j, k \in 1..n : j /= k => rows[j].config_id /= rows[k].config_id

\* C11 witness: the batch over 2 models, 2 strategies and 2 constraint labels
\* has returned its 8 rows.
C11_Witness ==
    /\ bpc = "returned"
    /\ ModelCount(batch_config.providers) = 2
    /\ Len(batch_config.strategies) = 2 /\ Len(batch_config.constraints) = 2
    /\ Len(rows) = 8

\* Rank, from 1, of the cell (backend p, its model m, strategy s, constraint
\* label c) when backends vary slowest and constraint labels fastest
Position(bc, p, m, s, c) ==
    (ModelCount(SubSeq(bc.providers, 1, p - 1)) + (m - 1)) * Len(bc.strategies) * Len(bc.constraints)
    + (s - 1) * Len(bc.constraints) + c

\* C12: cells are expanded with the backend varying slowest, then the model,
\* then the strategy, then the constraint label; the k-th row's id is
\* k:backend:model:strategy:label of the k-th cell in that order, and the row
\* carries the result of the run for that cell, whatever the outcomes were.
C12_RowsFollowExpansionOrder ==
    bpc /= "called" =>
        \A p \in 1..Len(batch_config.providers) :
          \A m \in 1..Len(batch_config.providers[p].models) :
            \A s \in 1..Len(batch_config.strategies) :
              \A c \in 1..Len(batch_config.constraints) :
                LET k == Position(batch_config, p, m, s, c)
                    backend == batch_config.providers[p].provider
                    model == batch_config.providers[p].models[m]
                    strategy == batch_config.strategies[s]
                    label == batch_config.constraints[c].label
                IN  /\ k \in 1..Len(expanded)
                    /\ expanded[k].constraint_label = label
                    /\ expanded[k].single_config.constraints = batch_config.constraints[c].constraint
                    /\ k <= Len(rows) =>
                          /\ rows[k].config_id = <<k, ":", backend, ":", model, ":",
                                                   strategy, ":", label>>
                          /\ rows[k].provider = backend /\ rows[k].model = model
                          /\ rows[k].strategy = strategy
                          /\ rows[k].constraint_label = label
                          /\ rows[k].result.meta.provider = Some(backend)
                          /\ rows[k].result.meta.model = Some(model)
                          /\ rows[k].result.meta.strategy = Some(strategy)

\* C12 witness: a returned batch over two backends whose first cell failed and
\* whose second cell produced a candidate.
C12_Witness ==
    /\ bpc = "returned" /\ Len(rows) = 2
    /\ rows[1].config_id = <<1, ":", "groq", ":", "llama-3.1-8b-instant", ":", "baseline", ":", "long">>
    /\ IsNone(rows[1].result.commit)
    /\ rows[2].config_id = <<2, ":", "ollama", ":", "mistral", ":", "baseline", ":", "long">>
    /\ ~IsNone(rows[2].result.commit)

\* The failure codes an EngineResult of run_once can carry
CellFailures == ErrorCodes \cup {ConfigErrorMessage}

\* C13: a batch run is never cut short by a cell's failure: whatever backend,
\* parse or validation failures the cells meet, the batch returns, every
\* expanded cell has been run, and there is one row per cell carrying the
\* EngineResult run_once returned for it.
C13_BatchSurvivesCellFailures ==
    /\ <>(bpc = "returned")
    /\ [](bpc = "returned" =>
            /\ Len(rows) = Len(expanded) /\ engineRuns = Len(expanded)
            /\ \A k \in 1..Len(rows) :
                  /\ IsNone(rows[k].result.commit) <=> ~IsNone(rows[k].result.error)
                  /\ ~IsNone(rows[k].result.error) =>
                        Val(rows[k].result.error) \in CellFailures)
    /\ []((bpc = "loop" /\ index >= 1) =>
            (Len(rows) = index /\ rows[index].result = Val(result)))

\* C13 witness: the batch has returned all its rows although its first cell
\* ended on undecodable backend text and its second on a configuration error.
C13_Witness ==
    /\ bpc = "returned" /\ Len(rows) = 2
    /\ rows[1].result.error = Some("invalid_json")
    /\ rows[2].result.error = Some(ConfigErrorMessage)

\* C14 (as claimed): all cells of one batch run generate from one and the same
\* snapshot of the staged changes: no two prompts of a batch, of the same cell
\* or of different cells, are composed from different snapshots.
C14_CellsShareOneSnapshot ==
    \A i, j \in 1..Len(cellPrompts) :
        \A a \in cellPrompts[i], b \in cellPrompts[j] :
            a.diff = b.diff /\ a.status = b.status

\* C15 (as claimed): the run log holds exactly one record per completed target
\* run (an attempt sequence of _run_target that ended in success or exhausted),
\* whether the run belongs to a production run or to a batch cell.
C15_OneLogRecordPerTargetRun ==
    /\ (bpc = "none" /\ pc = "done") =>
          Len(runlog) = (IF IsNone(fallback) THEN 1 ELSE 2)
    /\ bpc \in {"loop", "returned"} => Len(runlog) = targetRuns

-----------------------------------------------------------------------------
(* Properties of validate_commit *)

\* The ValidationResult v lists the violation code
Reports(v, code) == \E i \in 1..Len(v.violations) : v.violations[i] = code

\* Number of white-space-delimited tokens of a text: the places where a
\* character that is not white space ends the text or precedes white space
TokenCount(text) ==
    Cardinality({i \in 1..Len(text) :
                    /\ text[i] \notin Whitespace
                    /\ (i = Len(text) \/ text[i + 1] \in Whitespace)})

\* Tokens of an optional field: none when the field is absent or empty
FieldTokens(field) == IF IsNone(field) THEN 0 ELSE TokenCount(Val(field))

\* Words of a candidate: the tokens of its subject and of its body
Words(commit) == FieldTokens(commit.subject) + FieldTokens(commit.body)

\* Bounds whose minimum does not exceed their maximum (an unset bound is no bound)
OrderedBounds(c) == IsNone(c.min) \/ IsNone(c.max) \/ Val(c.min) <= Val(c.max)

\* C16: for bounds with min <= max and every candidate, validate_commit reports
\* word_count_below_min exactly when the word count is below the minimum and
\* word_count_above_max exactly when it is above the maximum, never both; an
\* unset bound imposes nothing.
C16_WordCountBoundsReported ==
    OrderedBounds(limits) =>
        \A k \in 1..Len(validations) :
            LET v == validations[k]
                wc == Words(candidate)
            IN  /\ Reports(v, "word_count_below_min")
                      <=> (~IsNone(limits.min) /\ wc < Val(limits.min))
                /\ Reports(v, "word_count_above_max")
                      <=> (~IsNone(limits.max) /\ wc > Val(limits.max))
                /\ ~(Reports(v, "word_count_below_min") /\ Reports(v, "word_count_above_max"))

\* C16 witness: a two-word candidate validated against min 3, max 50, with
\* word_count_below_min as the only violation.
C16_Witness ==
    /\ validations /= <<>>
    /\ limits = [min |-> Some(3), max |-> Some(50)]
    /\ Words(candidate) = 2
    /\ validations[1].violations = <<"word_count_below_min">>

\* The candidate whose only field is the subject "fix: correct off-by-one in parser"
OffByOneCandidate ==
    /\ candidate.subject = Some(Chars_fix_off_by_one)
    /\ IsNone(candidate.body) /\ IsNone(candidate.type) /\ IsNone(candidate.scope)

\* C17 (as claimed): the word count is the number of white-space-delimited
\* tokens of subject and body joined by one space, absent or empty fields
\* adding nothing; the candidate with only the subject "fix: correct
\* off-by-one in parser" validates against min 3, max 50 with no violation and
\* word count 6.
C17_OffByOneSubjectCountsSix ==
    \A k \in 1..Len(validations) :
        /\ validations[k].word_count = Some(Words(candidate))
        /\ (OffByOneCandidate /\ limits = [min |-> Some(3), max |-> Some(50)]) =>
              /\ validations[k].violations = <<>>
              /\ validations[k].word_count = Some(6)

\* C17 (amended): as claimed, but that candidate's word count is 5, its tokens
\* being fix:, correct, off-by-one, in, parser.
C17_WordCountIsTokenCount ==
    \A k \in 1..Len(validations) :
        /\ validations[k].word_count = Some(Words(candidate))
        /\ (OffByOneCandidate /\ limits = [min |-> Some(3), max |-> Some(50)]) =>
              /\ validations[k].violations = <<>>
              /\ validations[k].word_count = Some(5)

\* C17 witness: a candidate with a two-word subject and a three-word body has
\* been validated and counted as five words.
C17_Witness ==
    /\ validations /= <<>>
    /\ candidate.subject = Some(Chars_add_cache)
    /\ candidate.body = Some(Chars_speeds_up_reads)
    /\ validations[1].word_count = Some(5)

\* The violation codes in the order presence, subject length, type format,
\* word-count bounds
ViolationOrder ==
    <<"subject_missing", "subject_too_long", "invalid_type_format",
      "word_count_below_min", "word_count_above_max">>

\* The codes the four checks report when each is run on its own
ReportedAlone(commit, constraints) ==
    LET each == <<validate_presence(commit), validate_subject_length(commit),
                  validate_conventional_format(commit),
                  validate_length_constraints(Words(commit), constraints)>>
    IN  {each[i][j] : <<i, j>> \in {<<i, j>> \in (1..4) \X (1..2) : j <= Len(each[i])}}

\* The word count lies within the bounds that are set
InBounds(commit, constraints) ==
    /\ (IsNone(constraints.min) \/ Words(commit) >= Val(constraints.min))
    /\ (IsNone(constraints.max) \/ Words(commit) <= Val(constraints.max))

\* C18: every call of validate_commit runs all four checks and reports what
\* each of them finds, in the order presence, subject length, type format,
\* word-count bounds, none hiding another; subject_too_long is reported exactly
\* for a present subject of more than 72 characters: with a valid type and an
\* in-bounds word count a 73-character subject gives [subject_too_long] and a
\* 72-character one gives no violation.
C18_AllChecksReportedInOrder ==
    \A k \in 1..Len(validations) :
        LET v == validations[k]
            Found(code) == code \in ReportedAlone(candidate, limits)
            fine == /\ candidate.type \in {None, Some(Chars_fix)}
                    /\ InBounds(candidate, limits)
        IN  /\ v.violations = SelectSeq(ViolationOrder, Found)
            /\ Reports(v, "subject_too_long")
                  <=> (~IsNone(candidate.subject) /\ Len(Val(candidate.subject)) > 72)
            /\ (fine /\ ~IsNone(candidate.subject) /\ Len(Val(candidate.subject)) = 73)
                  => v.violations = <<"subject_too_long">>
            /\ (fine /\ ~IsNone(candidate.subject) /\ Len(Val(candidate.subject)) = 72)
                  => v.violations = <<>>

\* C18 witness: a 73-character subject with an uppercase type, validated
\* against a maximum its word count exceeds: three checks report at once.
C18_Witness ==
    /\ validations /= <<>>
    /\ ~IsNone(candidate.subject)
    /\ Len(Val(candidate.subject)) = 73
    /\ validations[1].violations =
          <<"subject_too_long", "invalid_type_format", "word_count_above_max">>

\* C19 (as claimed): invalid_type_format is reported exactly when a type token
\* is present and is not made of one or more lowercase letters a-z only,
\* whatever the token: empty, with uppercase letters, digits, punctuation,
\* white space or a final line break; an absent type is never a violation.
C19_TypeFormatReportedIffNotLowercase ==
    \A k \in 1..Len(validations) :
        Reports(validations[k], "invalid_type_format")
            <=> /\ ~IsNone(candidate.type)
                /\ ~(/\ Len(Val(candidate.type)) >= 1
                     /\ \A i \in 1..Len(Val(candidate.type)) :
                           Val(candidate.type)[i] \in Lowercase)

-----------------------------------------------------------------------------
(* Properties of the response normalizer *)

FieldNames == {"type", "scope", "subject", "body"}

\* The response is one JSON value between optional fences, at position i
PayloadAt(i) ==
    /\ i \in 1..Len(response)
    /\ response[i].t = "json"
    /\ SubSeq(response, 1, i - 1) \in LeadingNoise
    /\ SubSeq(response, i + 1, Len(response)) \in TrailingNoise

\* The response is a mapping between optional fences
IsWrappedObject == \E i \in 1..Len(response) : PayloadAt(i) /\ Val(response[i].v).kind = "object"

WrappedObject == Val(response[CHOOSE i \in 1..Len(response) : PayloadAt(i)].v)

\* key k is present with a value that is not text
NonTextField(obj, k) == ~IsNone(obj[k]) /\ ~Val(obj[k]).text

Failed(code) == Val(decoded).error = Some(code) /\ IsNone(Val(decoded).commit)

\* C21: a decoded mapping with any of type, scope, subject, body present and not
\* text fails with invalid_schema and gives no candidate; a mapping without such
\* a field gives a candidate, in which every missing key is absent, and no error
C21_NonTextFieldIsInvalidSchema ==
    (~IsNone(decoded) /\ IsWrappedObject) =>
        IF \E k \in FieldNames : NonTextField(WrappedObject, k)
        THEN Failed("invalid_schema")
        ELSE /\ IsNone(Val(decoded).error)
             /\ ~IsNone(Val(decoded).commit)
             /\ \A k \in FieldNames :
                    IsNone(WrappedObject[k]) => IsNone(Val(Val(decoded).commit)[k])

\* The scenario text: a json-tagged fence, the object {"subject":"add cache"}, a fence
FencedSubjectOnly == <<Fence, Word("json"), Space, Json(SubjectOnly), Space, Fence>>

\* C22: a leading fence (plain or tagged json) and a trailing fence are stripped
\* when present and not required; text that does not decode to a mapping fails
\* with invalid_json; the fenced {"subject":"add cache"} gives a candidate with
\* that subject, no type, scope or body, and the word count unset
C22_FencesOptionalThenDecoded ==
    ~IsNone(decoded) =>
        /\ IsWrappedObject => Val(decoded).error /= Some("invalid_json")
        /\ ~IsWrappedObject => Failed("invalid_json")
        /\ ~IsNone(Val(decoded).commit) => IsNone(Val(Val(decoded).commit).word_count)
        /\ response = FencedSubjectOnly =>
               /\ IsNone(Val(decoded).error)
               /\ Val(decoded).commit =
                      Some(CommitMessage(None, None, Some(Chars_add_cache), None, None))

C22_Witness ==
    /\ response = FencedSubjectOnly
    /\ ~IsNone(decoded)
    /\ ~IsNone(Val(decoded).commit)
    /\ Val(Val(decoded).commit).subject = Some(Chars_add_cache)

-----------------------------------------------------------------------------
(* Properties of compute_metrics *)

Indices == 1..Len(run_results)

\* the results satisfying P, counted by position
ValidIndices == {i \in Indices : run_results[i].violations = <<>> /\ run_results[i].error = None}

RetriedIndices == {i \in Indices : run_results[i].retries >= 1}

WordCountIndices ==
    {i \in Indices : run_results[i].commit /= None /\ Val(run_results[i].commit).word_count /= None}

Contains(seq, c) == \E j \in 1..Len(seq) : seq[j] = c

RECURSIVE SumOver(_, _)
SumOver(S, f) ==
    IF S = {} THEN 0 ELSE LET i == CHOOSE x \in S : TRUE IN f[i] + SumOver(S \ {i}, f)

\* q is the fraction n/d
IsFraction(q, n, d) == q.den > 0 /\ q.num * d = n * q.den

ViolationCodes ==
    {"subject_missing", "subject_too_long", "invalid_type_format",
     "word_count_below_min", "word_count_above_max"}

\* C23: compute_metrics returns the valid rate, retry rate, mean latency, mean
\* word count over the results with a word count (0 if none) and for every code
\* the number of results whose violations contain it; on no results every rate
\* and average is 0 and the frequency map is empty
C23_MetricsAreTheDefinedRatios ==
    ~IsNone(summary) =>
        LET m == Val(summary)
            n == Len(run_results)
            latency == [i \in Indices |-> run_results[i].latency_ms]
            words == [i \in WordCountIndices |-> Val(Val(run_results[i].commit).word_count)]
        IN  IF n = 0
            THEN /\ \A k \in {"valid_rate", "retry_rate", "average_latency", "average_word_count"} :
                        m[k].num = 0 /\ m[k].den > 0
                 /\ DOMAIN m.violation_frequency = {}
            ELSE /\ IsFraction(m.valid_rate, Cardinality(ValidIndices), n)
                 /\ IsFraction(m.retry_rate, Cardinality(RetriedIndices), n)
                 /\ IsFraction(m.average_latency, SumOver(Indices, latency), n)
                 /\ IF WordCountIndices = {}
                    THEN m.average_word_count.num = 0 /\ m.average_word_count.den > 0
                    ELSE IsFraction(m.average_word_count, SumOver(WordCountIndices, words),
                                    Cardinality(WordCountIndices))
                 /\ \A c \in ViolationCodes :
                        LET holders == {i \in Indices : Contains(run_results[i].violations, c)}
                        IN  IF holders = {} THEN c \notin DOMAIN m.violation_frequency
                            ELSE /\ c \in DOMAIN m.violation_frequency
                                 /\ m.violation_frequency[c] = Cardinality(holders)
                 /\ DOMAIN m.violation_frequency \subseteq ViolationCodes

\* three results, one valid, two retried, two with a word count, one code twice
C23_Witness ==
    /\ ~IsNone(summary)
    /\ Len(run_results) = 3
    /\ Cardinality(ValidIndices) = 1
    /\ Cardinality(RetriedIndices) = 2
    /\ "word_count_below_min" \in DOMAIN Val(summary).violation_frequency
    /\ Val(summary).violation_frequency["word_count_below_min"] = 2
    /\ RatLess(Rat(0, 1), Val(summary).average_word_count)

-----------------------------------------------------------------------------
(* Properties of compare_configs *)

Configs == 1..Len(metrics_by_config)

\* position in the returned list of the configuration given at position i
Rank_of(i) == CHOOSE j \in 1..Len(Val(scored)) : Val(scored)[j][1] = metrics_by_config[i][1]

\* numerator and denominator of 100*v - 20*r - l/1000, missing keys as 0/1
Part(m, k) == IF m[k] = None THEN [num |-> 0, den |-> 1] ELSE Val(m[k])

ScoreNum(m) ==
    LET v == Part(m, "valid_rate") r == Part(m, "retry_rate") l == Part(m, "average_latency")
    IN  100000 * v.num * r.den * l.den - 20000 * r.num * v.den * l.den - l.num * v.den * r.den

ScoreDen(m) ==
    1000 * Part(m, "valid_rate").den * Part(m, "retry_rate").den * Part(m, "average_latency").den

\* C24: every given configuration id is returned exactly once with the score
\* 100*valid_rate - 20*retry_rate - average_latency/1000 (a missing key is 0),
\* by descending score and, at equal score, by ascending id; the returned list
\* does not depend on the order of the given mapping
C24_RankingIsTotalAndOrderFree ==
    ~IsNone(scored) =>
        LET out == Val(scored)
        IN  /\ Len(out) = Len(metrics_by_config)
            /\ \A i \in Configs :
                   /\ Cardinality({j \in 1..Len(out) : out[j][1] = metrics_by_config[i][1]}) = 1
                   /\ out[Rank_of(i)][2].den > 0
                   /\ out[Rank_of(i)][2].num * ScoreDen(metrics_by_config[i][2])
                          = ScoreNum(metrics_by_config[i][2]) * out[Rank_of(i)][2].den
            /\ \A j, k \in 1..Len(out) :
                   j < k => \/ out[k][2].num * out[j][2].den < out[j][2].num * out[k][2].den
                            \/ /\ out[k][2].num * out[j][2].den = out[j][2].num * out[k][2].den
                               /\ StrLess(out[j][1], out[k][1])
            /\ \A f \in Permutations(Configs) :
                   compare_configs([i \in Configs |-> metrics_by_config[f[i]]]) = out

\* three configurations, two of them tied at score 80 and given in descending id order
C24_Witness ==
    /\ ~IsNone(scored)
    /\ Len(Val(scored)) = 3
    /\ \E j \in 1..2 :
           /\ RatEq(Val(scored)[j][2], Val(scored)[j + 1][2])
           /\ Val(scored)[j][2].num > 0
           /\ \E a, b \in Configs :
                  /\ a < b
                  /\ metrics_by_config[a][1] = Val(scored)[j + 1][1]
                  /\ metrics_by_config[b][1] = Val(scored)[j][1]
                  /\ metrics_by_config[a][2] /= metrics_by_config[b][2]

\* the configuration has all three keys: rates k/n of a batch, latency >= 0
BatchMetrics(m) == m.valid_rate /= None /\ m.retry_rate /= None /\ m.average_latency /= None

\* C25: of two configurations with batch metrics the one with the higher valid
\* rate is ranked first whatever the rest; at equal valid rates the one with the
\* lower retry rate; at equal valid and retry rates the one with the lower latency
C25_CorrectnessThenStabilityThenSpeed ==
    ~IsNone(scored) =>
        \A a, b \in Configs :
            LET ma == metrics_by_config[a][2]
                mb == metrics_by_config[b][2]
            IN  (BatchMetrics(ma) /\ BatchMetrics(mb)) =>
                    LET va == Val(ma.valid_rate)  vb == Val(mb.valid_rate)
                        ra == Val(ma.retry_rate)  rb == Val(mb.retry_rate)
                        la == Val(ma.average_latency)  lb == Val(mb.average_latency)
                    IN  /\ RatLess(vb, va) => Rank_of(a) < Rank_of(b)
                        /\ (RatEq(va, vb) /\ RatLess(ra, rb)) => Rank_of(a) < Rank_of(b)
                        /\ (RatEq(va, vb) /\ RatEq(ra, rb) /\ RatLess(la, lb))
                               => Rank_of(a) < Rank_of(b)

-----------------------------------------------------------------------------
(* Properties of the results run_once and _run_target return *)

\* Every EngineResult returned so far in this run_once call
ReturnedResults ==
    {Val(x) : x \in {y \in {primary, fallback, result} : ~IsNone(y)}}

HasCandidate(res) == res.commit /= None

\* the metrics aggregator counts res as a valid run
CountedValid(res) == compute_metrics(<<res>>).valid_rate = Rat(1, 1)

\* C28: for a cap R >= 0 every result of the orchestrator and of the coordinator
\* has a candidate iff it has no error, has no violations when it has a
\* candidate, has violations when its error is validation_failed; the run-log
\* valid flag and the metrics valid count hold exactly for results with a candidate
C28_CandidateIffNoErrorIffValid ==
    config.max_retries >= 0 =>
        \A res \in ReturnedResults :
            /\ HasCandidate(res) <=> res.error = None
            /\ HasCandidate(res) => res.violations = <<>>
            /\ res.error = Some("validation_failed") => res.violations /= <<>>
            /\ serialize_result(res).valid <=> HasCandidate(res)
            /\ CountedValid(res) <=> HasCandidate(res)

\* the coordinator returned a fallback candidate after a primary that failed validation
C28_Witness ==
    /\ config.max_retries >= 0
    /\ pc = "done"
    /\ ~IsNone(fallback)
    /\ Val(primary).error = Some("validation_failed")
    /\ Val(primary).violations /= <<>>
    /\ HasCandidate(Val(result))
    /\ serialize_result(Val(result)).valid

\* C30: with a negative cap no backend is attempted or invoked for either target
\* and the coordinator returns the fallback result: no candidate, no violations,
\* no error code, retries equal to the cap; the run log marks it valid and the
\* metrics aggregator counts it as a valid run
C30_NegativeCapReportedValid ==
    config.max_retries < 0 =>
        /\ \A t \in Runs : attempts[t] = 0 /\ calls[t] = 0
        /\ pc = "done" =>
               /\ ~IsNone(fallback)
               /\ Val(result).meta.fallback_used = Some(TRUE)
               /\ Val(result).commit = None
               /\ Val(result).violations = <<>>
               /\ Val(result).error = None
               /\ Val(result).retries = config.max_retries
               /\ serialize_result(Val(result)).valid
               /\ CountedValid(Val(result))

C30_Witness ==
    /\ config.max_retries < 0
    /\ pc = "done"
    /\ Val(result).retries = 0 - 1
    /\ Val(result).commit = None
    /\ serialize_result(Val(result)).valid

-----------------------------------------------------------------------------
(* Properties of the attempts of a batch cell *)

CellRunning == bpc = "running"

CellOver == bpc = "running" /\ pc = "done"

\* the cell made k attempts against its target in each of the two runs
AttemptedTwice(k) == attempts["primary"] = k /\ attempts["fallback"] = k

\* C29: one run_once call with cap R >= 0 makes at most 2*(R+1) attempts; a batch
\* cell's fallback target is its primary target, so a cell failing every attempt
\* for a reason other than the missing credential attempts that target exactly
\* 2*(R+1) times and reports retries = R, fallback_used = true; a cell that
\* succeeds at the first fallback attempt reports retries = 0 and is not counted
\* in the retry rate
C29_LabFallbackRepeatsPrimary ==
    (CellRunning /\ config.max_retries >= 0) =>
        /\ attempts["primary"] + attempts["fallback"] <= 2 * (config.max_retries + 1)
        /\ config.fallback = [provider |-> config.provider, model |-> config.model,
                              strategy |-> config.strategy]
        /\ (CellOver /\ ~HasCandidate(Val(result)) /\ ~PrimaryMissingCredential) =>
               /\ AttemptedTwice(config.max_retries + 1)
               /\ Val(result).retries = config.max_retries
               /\ Val(result).meta.fallback_used = Some(TRUE)
        /\ (CellOver /\ attempts["fallback"] = 1 /\ LastValid("fallback")) =>
               /\ Val(result).retries = 0
               /\ compute_metrics(<<Val(result)>>).retry_rate = Rat(0, 1)

\* a cell with cap 1 whose backend answered and failed all four attempts
C29_Witness ==
    /\ CellOver
    /\ config.max_retries = 1
    /\ AttemptedTwice(2)
    /\ calls["primary"] = 2 /\ calls["fallback"] = 2
    /\ ~HasCandidate(Val(result))
    /\ Val(result).retries = 1
    /\ Val(result).meta.fallback_used = Some(TRUE)

-----------------------------------------------------------------------------
(* Properties of the candidates run_once returns *)

\* one or more lowercase letters a-z and nothing else
LowercaseWord(text) == Len(text) >= 1 /\ \A i \in 1..Len(text) : text[i] \in Lowercase

\* C27: every candidate in a result of the primary or the fallback run passes
\* every rule under the configured bounds: subject present, 1 to 72 characters;
\* type absent or lowercase letters only; the stored word count is the count
\* recomputed from subject and body and lies within min..max
C27_ReturnedCandidatePassesEveryRule ==
    \A res \in ReturnedResults :
        HasCandidate(res) =>
            LET c == Val(res.commit)
            IN  /\ c.subject /= None
                /\ Len(Val(c.subject)) >= 1
                /\ Len(Val(c.subject)) <= MaxSubjectLen
                /\ (c.type = None \/ LowercaseWord(Val(c.type)))
                /\ c.word_count = Some(Words(c))
                /\ config.constraints.min <= Words(c)
                /\ Words(c) <= config.constraints.max

-----------------------------------------------------------------------------
(* Properties of two invocations that differ in timeout_seconds *)

SecondRunning == twin_pc = "second"

\* res without the timeout_seconds entry of its metadata
WithoutTimeout(res) == [res EXCEPT !.meta.timeout_seconds = None]

WithoutTimeoutOpt(x) == IF IsNone(x) THEN None ELSE Some(WithoutTimeout(Val(x)))

\* C26: timeout_seconds is not enforced: the second invocation, overdue from the
\* start, asks the backend whenever the first did and gives up whenever the first
\* did, and returns the same result and makes the same invocations, the
\* timeout_seconds entry of the metadata apart; retries are counted as before
C26_TimeoutNeverEnforced ==
    SecondRunning =>
        /\ pc = "calling" => (tape /= <<>> /\ ~IsNone(Head(tape).outcome))
        /\ (pc = "loop" /\ ~LoopGuard(retries, config.max_retries))
               => (tape /= <<>> /\ IsNone(Head(tape).outcome))
        /\ \A t \in Runs : /\ calls[t] <= Val(first_run).calls[t]
                           /\ attempts[t] <= Val(first_run).attempts[t]
        /\ pc = "done" =>
               /\ tape = <<>>
               /\ calls = Val(first_run).calls
               /\ attempts = Val(first_run).attempts
               /\ prompted = Val(first_run).prompted
               /\ WithoutTimeout(Val(result)) = WithoutTimeout(Val(first_run).result)
               /\ WithoutTimeoutOpt(primary) = WithoutTimeoutOpt(Val(first_run).primary)
               /\ WithoutTimeoutOpt(fallback) = WithoutTimeoutOpt(Val(first_run).fallback)
               /\ Val(result).meta.timeout_seconds = Some(TwinTimeouts.second)
               /\ Val(first_run).result.meta.timeout_seconds = Some(TwinTimeouts.first)

\* both invocations retried and used the fallback: four calls each, cap 1
C26_Witness ==
    /\ SecondRunning
    /\ pc = "done"
    /\ config.max_retries = 1
    /\ config.timeout_seconds = 0
    /\ calls["primary"] = 2 /\ calls["fallback"] = 2
    /\ Val(result).retries = 1
    /\ Val(first_run).result.retries = 1
    /\ Val(result).meta.timeout_seconds /= Val(first_run).result.meta.timeout_seconds

====
